---- MODULE Spec2Model ----
(***************************************************************************)
(* t42-cli: the authenticated API client (internal/api/api.go), the token  *)
(* refresh wiring (cmd/root.go, cmd/auth.go) and the OAuth2 login flow     *)
(* (cmd/auth.go), over one credential file.                                *)
(*                                                                         *)
(* One CLI invocation runs at a time (cmd); the credential file (store)    *)
(* and the wall clock (now) outlive invocations.                           *)
(***************************************************************************)
EXTENDS Integers, Sequences, FiniteSets, TLC

(***************************************************************************)
(* Program constants                                                       *)
(***************************************************************************)
MaxRetries == 3

RefreshBuffer == 300

(***************************************************************************)
(* Bounds of the model                                                     *)
(***************************************************************************)
MaxTime == 1

MaxCallbacks == 2

MaxPages == 3

\* the page size the client asks for (100 in the code), scaled down
PerPage == 2

MaxLimit == 2

MaxProjects == 2

MaxQuests == 2

MaxSeed == 9

MaxCampuses == 11

MaxRules == 2

(***************************************************************************)
(* Value domains                                                           *)
(***************************************************************************)
AccessTokens == {"", "a1", "a2"}

RefreshTokens == {"", "r1"}

ExpiresInValues == {299, 301}

GrantedExpiresIn == {301}

LoginStates == {"s1", "s2"}

Codes == {"", "c1"}

ErrorParams == {"", "access_denied"}

Statuses == {200, 401, 404, 429, 503}

Bodies == {"empty", "text", "json"}

NetErr == [status |-> 0, body |-> "none"]

Responses == [status : Statuses, body : Bodies]

Outcomes == Responses \cup {NetErr}

NoResp == [status |-> 0, body |-> "none", closed |-> FALSE]

NoFile == [kind |-> "nofile"]

Corrupt == [kind |-> "corrupt"]

Credentials == [kind : {"creds"}, access : AccessTokens, refresh : RefreshTokens,
                createdAt : 0..MaxTime, expiresIn : ExpiresInValues]

NoErr == [kind |-> "ok", status |-> 0]

Err(k) == [kind |-> k, status |-> 0]

ApiErr(s) == [kind |-> "api", status |-> s]

VARIABLES
    cmd,          \* the CLI invocation in progress: "none", "api" or "login"
    store,        \* content of the credential file
    now,          \* wall clock, seconds
    token,        \* Client.token
    refresher,    \* Client.tokenRefresher: "none", "stub" or "wired"
    pc,           \* position of the resource call
    phase,        \* which doRequest call of makeRequest is running (1 or 2)
    attempt,      \* doRequest's loop variable
    reqAuth,      \* bearer token in the Authorization header of req
    log,          \* outcomes the transport produced in the current doRequest
    ctxDone,      \* the caller's context is cancelled or past its deadline
    drResp,       \* response returned by the last doRequest
    drErr,        \* error returned by the last doRequest
    result,       \* error (or NoErr) the resource call returned to its caller
    drCalls,      \* doRequest calls of this makeRequest
    refreshCalls, \* tokenRefresher calls of this makeRequest
    newToken,     \* token the last tokenRefresher call returned
    refreshErr,   \* error the last tokenRefresher call returned
    grants,       \* refresh_token grants posted since the resource call was prepared
    lpc,          \* position of runLogin
    lnOpen,       \* the loopback listener is bound and not closed
    expState,     \* the state generated for this login attempt
    handlers,     \* the callback requests received, in order of arrival
    tokenChan,    \* buffered channel of credentials, capacity 1
    errorChan,    \* buffered channel of errors, capacity 1
    spc,          \* position of the goroutine running http.Serve
    credentials,  \* runLogin's credentials variable
    loginResult,  \* what runLogin returned
    redirectURL,  \* runLogin's redirectURL, fixed by the loopback binding
    pkce,         \* the PKCEParams generated for this login attempt
    authURL       \* the query parameters of the authorize URL opened in the browser

storeVars == <<store, now>>

apiVars == <<token, refresher, pc, phase, attempt, reqAuth, log, ctxDone,
             drResp, drErr, result, drCalls, refreshCalls, newToken, refreshErr, grants>>

pkceVars == <<redirectURL, pkce, authURL>>

loginVars == <<lpc, lnOpen, expState, handlers, tokenChan, errorChan, spc,
               credentials, loginResult, pkceVars>>

\* getPaginated and the listing it drains
VARIABLES
    srvLink,      \* the listing: Link header of each page
    srvLen,       \* the listing: number of items of each page
    dpc,          \* position of getPaginated: "idle", "loop" or "done"
    nextURL,      \* page addressed by nextURL, 0 for ""
    allItems,     \* items collected so far
    requested,    \* pages requested so far, in order
    drainErr      \* error returned by getPaginated

drainVars == <<srvLink, srvLen, dpc, nextURL, allItems, requested, drainErr>>

\* the rule checks of the eligible command on one candidate
VARIABLES
    projectUsers,       \* the candidate's projects_users records
    forbiddenProjects,  \* reqs.forbiddenProjects
    verdict             \* "none", or what checkForbiddenProjects returned

VARIABLES
    questUsers,         \* the candidate's quests_users records
    requiredQuests,     \* reqs.requiredQuests
    questVerdict,       \* "none", or what checkRequiredQuests returned
    rules,              \* session.ProjectSessionsRules
    reqs,               \* what parseInscriptionRules returned
    parsed              \* parseInscriptionRules has returned

projectRuleVars == <<projectUsers, forbiddenProjects, verdict>>

questRuleVars == <<questUsers, requiredQuests, questVerdict>>

parseVars == <<rules, reqs, parsed>>

VARIABLES
    forbiddenQuests,    \* reqs.forbiddenQuests
    fqVerdict           \* "idle", "none", or what checkForbiddenQuests returned

forbiddenQuestVars == <<forbiddenQuests, fqVerdict>>

ruleVars == <<projectRuleVars, questRuleVars, parseVars, forbiddenQuestVars>>

\* the candidate scan of runEligible and the listing it reads
VARIABLES
    srvPages,        \* the listing: number of candidate pages
    srvLastLen,      \* the listing: number of candidates on the last page
    srvTotalPages,   \* the listing: responses carry X-Total-Pages
    scpc,            \* position of the scan
    limit,           \* --limit
    currentPage,
    pageLen,         \* len(cursusUsers)
    pos,             \* candidates of cursusUsers the range loop has taken
    metaTotalPages,  \* meta.TotalPages
    eligible,        \* accepted candidates, in order
    totalChecked,
    totalAPIPages,
    apiFailed,       \* some API call of the scan returned an error
    scanErr,         \* error returned by runEligible
    lastOutcome      \* how the body of the range loop ended for the last candidate

scanVars == <<srvPages, srvLastLen, srvTotalPages, scpc, limit, currentPage, pageLen,
              pos, metaTotalPages, eligible, totalChecked, totalAPIPages, apiFailed,
              scanErr, lastOutcome>>

cliVars == <<cmd, storeVars, apiVars, loginVars>>

\* one call of oauth.GeneratePKCEParams
VARIABLES
    randBytes,   \* the bytes crypto/rand delivers to generateCodeVerifier
    gpc,         \* "idle", "ok" or "err": how GeneratePKCEParams returned
    generated    \* the PKCEParams returned, <<>> if none

pkceGenVars == <<randBytes, gpc, generated>>

\* one call of config.SaveCredentials seen from the file system
VARIABLES
    fileMode,    \* permission bits of the credential file, <<>> if it does not exist
    saved        \* "idle", "ready", "ok" or "err": how SaveCredentials last returned

fileVars == <<fileMode, saved>>

\* one response handed to a client's response handling
VARIABLES
    hrResp,      \* the *http.Response
    hrBy,        \* "idle", "ready", or the function that handled it
    hrOut,       \* the error returned to the caller
    hrDecoded,   \* the body was handed to the JSON decoder with the caller's target
    hrMsg        \* the text of the API error returned, <<>> when there is none

respVars == <<hrResp, hrBy, hrOut, hrDecoded, hrMsg>>

\* one run of a command that resolves a campus name: user list, user eligible
VARIABLES
    lcmd,        \* "idle", "list" or "eligible"
    flags,       \* the flags of the invocation
    campuses,    \* what ListCampuses returns when it succeeds
    outcome      \* what the command did: its error, the requests it issued, ...

cmdVars == <<lcmd, flags, campuses, outcome>>

\* one call of matchesBlackholeStatus
VARIABLES
    bhUser,      \* the *api.CursusUser
    bhStatus,    \* the status asked for
    bhDays,      \* the days of the upcoming window
    bhNow,       \* the time of the call
    bhBy,        \* "idle", "ready" or "done"
    bhOut        \* the value returned

bhVars == <<bhUser, bhStatus, bhDays, bhNow, bhBy, bhOut>>

auxVars == <<pkceGenVars, fileVars, respVars, cmdVars, bhVars>>

otherVars == <<drainVars, ruleVars, scanVars, auxVars>>

vars == <<cmd, storeVars, apiVars, loginVars, otherVars>>

(***************************************************************************)
(* Credential store (internal/config)                                      *)
(***************************************************************************)
\* LoadCredentials: the credentials, or an error for a missing or unparsable file
LoadCredentials(st) ==
    IF st.kind = "creds" THEN [err |-> NoErr, creds |-> st]
    ELSE [err |-> Err("load"), creds |-> st]

\* SaveCredentials: os.WriteFile truncates, then writes; a failure before the
\* file is opened leaves it alone, a failure after leaves it unparsable.
SaveCredentials(st, creds) ==
    { [err |-> NoErr, store |-> creds],
      [err |-> Err("save"), store |-> st],
      [err |-> Err("save"), store |-> Corrupt] }

\* what the token endpoint may answer to a grant at time t
TokenResponses(t) ==
    [kind : {"creds"}, access : AccessTokens, refresh : RefreshTokens,
     createdAt : {t}, expiresIn : GrantedExpiresIn]

\* refreshAccessToken: one refresh_token grant; an error or the new credentials
refreshAccessToken(t) ==
    { [err |-> Err("config"), creds |-> NoFile],     \* getOAuth2Config failed, no POST
      [err |-> Err("grant"), creds |-> NoFile] }
    \cup { [err |-> NoErr, creds |-> c] : c \in TokenResponses(t) }

\* variant: the time elapsed since the token was issued is ignored
TimeUntilExpiryAtIssue(creds, t) == creds.expiresIn

\* time.Until(created_at + expires_in), in seconds
TimeUntilExpiry(creds, t) == creds.createdAt + creds.expiresIn - t

\* the error RefreshTokenIfNeeded wraps when refreshAccessToken failed with e
RefreshError(e) == IF e = Err("config") THEN Err("refresh_config") ELSE Err("refresh")

\* requests refreshAccessToken posted to the token endpoint before returning e
GrantsSent(e) == IF e = Err("config") THEN 0 ELSE 1

\* variant: the credential file is truncated before the grant is known to succeed
RefreshTokenIfNeededTruncating(st, t) ==
    LET ld == LoadCredentials(st) IN
    IF ld.err # NoErr THEN { [err |-> ld.err, store |-> st, grants |-> 0] }
    ELSE IF TimeUntilExpiry(ld.creds, t) > RefreshBuffer
         THEN { [err |-> NoErr, store |-> st, grants |-> 0] }
    ELSE IF ld.creds.refresh = ""
         THEN { [err |-> Err("relogin"), store |-> st, grants |-> 0] }
    ELSE UNION { IF g.err # NoErr
                 THEN { [err |-> RefreshError(g.err), store |-> Corrupt,
                         grants |-> GrantsSent(g.err)] }
                 ELSE { [err |-> (IF sv.err # NoErr THEN Err("save") ELSE NoErr),
                         store |-> sv.store, grants |-> 1]
                        : sv \in SaveCredentials(st, g.creds) }
               : g \in refreshAccessToken(t) }

\* RefreshTokenIfNeeded: the set of outcomes [err, store, grants]
RefreshTokenIfNeeded(st, t) ==
    LET ld == LoadCredentials(st) IN
    IF ld.err # NoErr THEN { [err |-> ld.err, store |-> st, grants |-> 0] }
    ELSE IF TimeUntilExpiry(ld.creds, t) > RefreshBuffer
         THEN { [err |-> NoErr, store |-> st, grants |-> 0] }
    ELSE IF ld.creds.refresh = ""
         THEN { [err |-> Err("relogin"), store |-> st, grants |-> 0] }
    ELSE UNION { IF g.err # NoErr
                 THEN { [err |-> RefreshError(g.err), store |-> st,
                         grants |-> GrantsSent(g.err)] }
                 ELSE { [err |-> (IF sv.err # NoErr THEN Err("save") ELSE NoErr),
                         store |-> sv.store, grants |-> 1]
                        : sv \in SaveCredentials(st, g.creds) }
               : g \in refreshAccessToken(t) }

\* the callback NewAPIClient registers: refresh, then reload the access token
WiredRefresher(st, t) ==
    UNION { IF r.err # NoErr
            THEN { [err |-> r.err, token |-> "", store |-> r.store, grants |-> r.grants] }
            ELSE LET ld == LoadCredentials(r.store) IN
                 IF ld.err # NoErr
                 THEN { [err |-> Err("reload"), token |-> "", store |-> r.store,
                         grants |-> r.grants] }
                 ELSE { [err |-> NoErr, token |-> ld.creds.access, store |-> r.store,
                         grants |-> r.grants] }
          : r \in RefreshTokenIfNeeded(st, t) }

\* a callback supplied by any other caller of WithTokenRefresher
StubRefresher(st) ==
    { [err |-> Err("stub"), token |-> "", store |-> st, grants |-> 0] }
    \cup { [err |-> NoErr, token |-> tk, store |-> st, grants |-> 0] : tk \in AccessTokens }

TokenRefresher(kind, st, t) ==
    IF kind = "wired" THEN WiredRefresher(st, t) ELSE StubRefresher(st)

(***************************************************************************)
(* HTTP request pipeline (internal/api/api.go)                             *)
(***************************************************************************)
\* variant: every error status is retried
ShouldRetryAllErrors(status) == status >= 400

\* variant: rate limiting is not retried
ShouldRetryServerOnly(status) == status >= 500

\* doRequest's retry test: server errors and rate limiting
ShouldRetry(status) == status >= 500 \/ status = 429

\* ErrorResponse.Status after json.Unmarshal: the status field of the body,
\* 0 when the body has none
BodyStatus(resp) == IF "bodyStatus" \in DOMAIN resp THEN resp.bodyStatus ELSE 0

\* handleResponse with a non-nil target: the error returned to the caller
handleResponse(resp) ==
    IF resp.closed /\ resp.body # "empty" THEN Err("read")
    ELSE IF resp.status >= 400
         THEN IF resp.body = "json"
              THEN ApiErr(IF BodyStatus(resp) = 0 THEN resp.status ELSE BodyStatus(resp))
              ELSE [kind |-> "apiraw", status |-> resp.status]
    ELSE IF resp.body = "json" THEN NoErr
    ELSE Err("decode")

\* handleResponse reaches json.Unmarshal(body, target)
handleResponseDecodes(resp) ==
    /\ ~(resp.closed /\ resp.body # "empty")
    /\ ~(resp.status >= 400)

\* entry of doRequest: the request is built once, with the current token
EnterDoRequest(tk, ph) ==
    /\ reqAuth' = tk
    /\ phase' = ph
    /\ attempt' = 0
    /\ log' = <<>>
    /\ drResp' = NoResp
    /\ drErr' = NoErr
    /\ drCalls' = ph
    /\ pc' = "send"

\* a fresh makeRequest on a client holding token tk
EnterMakeRequest(tk) ==
    /\ EnterDoRequest(tk, 1)
    /\ token' = tk
    /\ result' = NoErr
    /\ refreshCalls' = 0
    /\ newToken' = ""
    /\ refreshErr' = NoErr

\* api.NewClient(token, opts...) followed by a resource call
StartDirect ==
    /\ cmd = "none"
    /\ cmd' = "api"
    /\ \E tk \in AccessTokens : EnterMakeRequest(tk)
    /\ \E r \in {"none", "stub"} : refresher' = r
    /\ ctxDone' \in BOOLEAN
    /\ grants' = 0
    /\ UNCHANGED <<storeVars, loginVars>>
    /\ UNCHANGED otherVars

\* variant: the loop runs one more time
LoopContinuesOneMore(att) == att <= MaxRetries + 1

\* the condition of doRequest's for loop
LoopContinues(att) == att <= MaxRetries

\* the rest of the loop body after httpClient.Do returned outcome o with error
\* le ("nil", "net" or "ctx"): continue, break, and the code after the loop
AfterDo(o, le) ==
    LET retry == le # "nil" \/ ShouldRetry(o.status)
        att   == IF retry THEN attempt + 1 ELSE attempt
    IN  /\ attempt' = att
        /\ drResp' = IF le # "nil" THEN NoResp
                     ELSE [status |-> o.status, body |-> o.body, closed |-> retry]
        /\ IF retry /\ LoopContinues(att)
           THEN /\ pc' = "wait"
                /\ drErr' = NoErr
           ELSE /\ pc' = "ret"
                /\ drErr' = IF le = "nil" THEN NoErr
                            ELSE IF le = "net" THEN Err("attempts_net")
                            ELSE Err("attempts_ctx")

\* one httpClient.Do(req): nothing reaches the server once the context is done
DoAttempt ==
    /\ cmd = "api" /\ pc = "send"
    /\ \/ /\ ctxDone
          /\ AfterDo(NetErr, "ctx")
          /\ UNCHANGED <<log, ctxDone>>
       \/ /\ ~ctxDone
          /\ \E o \in Outcomes :
               /\ AfterDo(o, IF o = NetErr THEN "net" ELSE "nil")
               /\ log' = Append(log, o.status)
          /\ UNCHANGED ctxDone
       \/ /\ ~ctxDone             \* the context ends while the request is in flight
          /\ refresher # "wired"  \* the commands pass context.Background()
          /\ AfterDo(NetErr, "ctx")
          /\ log' = Append(log, 0)
          /\ ctxDone' = TRUE
    /\ UNCHANGED <<cmd, storeVars, token, refresher, phase, reqAuth, result,
                   drCalls, refreshCalls, newToken, refreshErr, grants, loginVars>>
    /\ UNCHANGED otherVars

\* variant: the wait does not watch the context
BackoffElapsedAnyway ==
    /\ cmd = "api" /\ pc = "wait"
    /\ pc' = "send"
    /\ UNCHANGED <<cmd, storeVars, token, refresher, phase, attempt, reqAuth, log,
                   ctxDone, drResp, drErr, result, drCalls, refreshCalls, newToken,
                   refreshErr, grants, loginVars>>
    /\ UNCHANGED otherVars

\* the select of the backoff wait: time.After fires first
BackoffElapsed ==
    /\ cmd = "api" /\ pc = "wait"
    /\ ~ctxDone
    /\ pc' = "send"
    /\ UNCHANGED <<cmd, storeVars, token, refresher, phase, attempt, reqAuth, log,
                   ctxDone, drResp, drErr, result, drCalls, refreshCalls, newToken,
                   refreshErr, grants, loginVars>>
    /\ UNCHANGED otherVars

\* the select of the backoff wait: ctx.Done() is ready, return ctx.Err()
BackoffCancelled ==
    /\ cmd = "api" /\ pc = "wait"
    /\ ctxDone
    /\ pc' = "ret"
    /\ drResp' = NoResp
    /\ drErr' = Err("ctx")
    /\ UNCHANGED <<cmd, storeVars, token, refresher, phase, attempt, reqAuth, log,
                   ctxDone, result, drCalls, refreshCalls, newToken, refreshErr,
                   grants, loginVars>>
    /\ UNCHANGED otherVars

\* the caller cancels the context, or its deadline passes
Cancel ==
    /\ cmd = "api" /\ pc \in {"send", "wait"}
    /\ refresher # "wired"        \* the commands pass context.Background()
    /\ ~ctxDone
    /\ ctxDone' = TRUE
    /\ UNCHANGED <<cmd, storeVars, token, refresher, pc, phase, attempt, reqAuth, log,
                   drResp, drErr, result, drCalls, refreshCalls, newToken, refreshErr,
                   grants, loginVars>>
    /\ UNCHANGED otherVars

\* variant: every 401 triggers a refresh
WantsRefreshEvery401(ph, resp, r) == resp.status = 401 /\ r # "none"

\* makeRequest's 401 test after the doRequest call made at call site ph
WantsRefresh(ph, resp, r) == ph = 1 /\ resp.status = 401 /\ r # "none"

\* variant: the token is assigned before the callback's error is looked at
TokenAfterRefreshUnchecked(tk, o) == o.token

\* c.token after c.tokenRefresher() returned o: assigned only past the error test
TokenAfterRefresh(tk, o) == IF o.err # NoErr THEN tk ELSE o.token

\* makeRequest after doRequest returned, and the resource method's handleResponse
MakeRequestReturn ==
    /\ cmd = "api" /\ pc = "ret"
    /\ IF drErr # NoErr
       THEN /\ result' = drErr
            /\ pc' = "done"
            /\ UNCHANGED <<store, token, phase, attempt, reqAuth, log, drResp, drErr,
                           drCalls, refreshCalls, newToken, refreshErr, grants>>
       ELSE IF WantsRefresh(phase, drResp, refresher)
       THEN \E o \in TokenRefresher(refresher, store, now) :
              /\ refreshCalls' = refreshCalls + 1
              /\ newToken' = o.token
              /\ refreshErr' = o.err
              /\ grants' = grants + o.grants
              /\ store' = o.store
              /\ token' = TokenAfterRefresh(token, o)
              /\ IF o.err # NoErr
                 THEN /\ result' = Err("refresh_failed")
                      /\ pc' = "done"
                      /\ UNCHANGED <<phase, attempt, reqAuth, log, drResp, drErr,
                                     drCalls>>
                 ELSE /\ EnterDoRequest(token', 2)
                      /\ UNCHANGED result
       ELSE /\ result' = handleResponse(drResp)
            /\ pc' = "done"
            /\ UNCHANGED <<store, token, phase, attempt, reqAuth, log, drResp, drErr,
                           drCalls, refreshCalls, newToken, refreshErr, grants>>
    /\ UNCHANGED <<cmd, now, refresher, ctxDone, loginVars>>
    /\ UNCHANGED otherVars

\* the command issues its next resource call on the same client and context
NextCall ==
    /\ cmd = "api" /\ pc = "done"
    /\ result = NoErr
    /\ EnterMakeRequest(token)
    /\ grants' = 0
    /\ UNCHANGED <<cmd, storeVars, refresher, ctxDone, loginVars>>
    /\ UNCHANGED otherVars

\* no PKCE parameters generated yet
NoPKCE == [CodeVerifier |-> "", CodeChallenge |-> <<>>]

\* url.Values with nothing set
NoParams == [x \in {} |-> ""]

\* the memory of a process that has ended
Cleared ==
    /\ token' = ""
    /\ refresher' = "none"
    /\ pc' = "idle"
    /\ phase' = 1
    /\ attempt' = 0
    /\ reqAuth' = ""
    /\ log' = <<>>
    /\ ctxDone' = FALSE
    /\ drResp' = NoResp
    /\ drErr' = NoErr
    /\ result' = NoErr
    /\ drCalls' = 0
    /\ refreshCalls' = 0
    /\ newToken' = ""
    /\ refreshErr' = NoErr
    /\ grants' = 0
    /\ lpc' = "idle"
    /\ lnOpen' = FALSE
    /\ expState' = ""
    /\ handlers' = <<>>
    /\ tokenChan' = <<>>
    /\ errorChan' = <<>>
    /\ spc' = "off"
    /\ credentials' = NoFile
    /\ loginResult' = NoErr
    /\ redirectURL' = ""
    /\ pkce' = NoPKCE
    /\ authURL' = NoParams

\* the command returns and the process ends
Exit ==
    /\ cmd = "api" /\ pc = "done"
    /\ cmd' = "exited"
    /\ Cleared
    /\ UNCHANGED storeVars
    /\ UNCHANGED otherVars

(***************************************************************************)
(* Authenticated client of the commands (cmd/root.go)                      *)
(***************************************************************************)
\* config.NeedsRefresh: the remaining validity is under the refresh buffer
NeedsRefresh(creds, t) == TimeUntilExpiry(creds, t) < RefreshBuffer

\* NewAPIClient, then the command's first resource call
NewAPIClient ==
    /\ cmd = "none"
    /\ cmd' = "api"
    /\ refresher' = "wired"
    /\ ctxDone' = FALSE
    /\ LET ld == LoadCredentials(store)
           fail(e, cause, st, g, t) ==
               /\ result' = Err(e)
               /\ refreshErr' = cause
               /\ pc' = "done"
               /\ store' = st
               /\ grants' = g
               /\ now' = t
               /\ UNCHANGED <<token, phase, attempt, reqAuth, log, drResp, drErr,
                              drCalls, refreshCalls, newToken>>
       IN  IF ld.err # NoErr THEN fail("not_authenticated", NoErr, store, 0, now)
           ELSE IF NeedsRefresh(ld.creds, now)
           THEN \E t \in now..MaxTime : \E r \in RefreshTokenIfNeeded(store, t) :
                  IF r.err # NoErr THEN fail("refresh_failed", r.err, r.store, r.grants, t)
                  ELSE LET rl == LoadCredentials(r.store) IN
                       IF rl.err # NoErr
                       THEN fail("reload_failed", Err("reload"), r.store, r.grants, t)
                       ELSE /\ EnterMakeRequest(rl.creds.access)
                            /\ store' = r.store
                            /\ grants' = r.grants
                            /\ now' = t
           ELSE /\ EnterMakeRequest(ld.creds.access)
                /\ grants' = 0
                /\ UNCHANGED <<store, now>>
    /\ UNCHANGED loginVars
    /\ UNCHANGED otherVars

\* the wall clock advances while a command runs
Tick ==
    /\ cmd = "api" /\ pc # "done"
    /\ now < MaxTime
    /\ now' = now + 1
    /\ UNCHANGED <<cmd, store, apiVars, loginVars>>
    /\ UNCHANGED otherVars

(***************************************************************************)
(* Login flow (cmd/auth.go)                                                *)
(***************************************************************************)
\* HasValidCredentials: a credential file with a non-empty access token
HasValidCredentials(st) ==
    LET ld == LoadCredentials(st) IN ld.err = NoErr /\ ld.creds.access # ""

\* variant: the state parameter is not compared
CheckCallbackNoState(code, st, errp, expected) ==
    IF errp # "" THEN "oauth"
    ELSE IF code = "" THEN "code"
    ELSE "pass"

\* handleCallback's checks, in the order of the code
CheckCallback(code, st, errp, expected) ==
    IF errp # "" THEN "oauth"
    ELSE IF st # expected THEN "state"
    ELSE IF code = "" THEN "code"
    ELSE "pass"

\* redirectURL after the loopback binding (the port is left out)
RedirectURLs == {"http://127.0.0.1/callback"}

\* what crypto/rand yields in one login attempt: the state of generateState
\* and the verifier of generateCodeVerifier
AttemptRandoms == { [state |-> "s1", verifier |-> "v1"],
                    [state |-> "s2", verifier |-> "v2"] }

\* generateCodeChallenge: the encoded SHA-256 digest of the verifier, kept as
\* a term over the verifier (distinct verifiers give distinct challenges)
generateCodeChallenge(verifier) == <<"S256", verifier>>

\* variant: the challenge of the "plain" method
GeneratePKCEParamsPlain(verifier) ==
    [CodeVerifier |-> verifier, CodeChallenge |-> verifier]

\* oauth.GeneratePKCEParams on the verifier drawn
GeneratePKCEParams(verifier) ==
    [CodeVerifier |-> verifier, CodeChallenge |-> generateCodeChallenge(verifier)]

\* buildAuthorizationURL: the parameters placed in the authorize URL
buildAuthorizationURL(redirect, state, pkceChallenge) ==
    LET params == [redirect_uri |-> redirect, state |-> state] IN
    IF pkceChallenge # <<>>
    THEN params @@ [code_challenge |-> pkceChallenge, code_challenge_method |-> "S256"]
    ELSE params

\* variant: the exchange of the flow without PKCE
exchangeFormNoVerifier(code, redirect, pkceVerifier) ==
    [code |-> code, redirect_uri |-> redirect]

\* exchangeCodeForToken: the form it posts to the token endpoint
exchangeForm(code, redirect, pkceVerifier) ==
    LET data == [code |-> code, redirect_uri |-> redirect] IN
    IF pkceVerifier # "" THEN data @@ [code_verifier |-> pkceVerifier] ELSE data

\* runLogin binds the loopback listener, or fails to
StartLogin ==
    /\ cmd = "none"
    /\ cmd' = "login"
    /\ \/ /\ lnOpen' = TRUE
          /\ lpc' = "bound"
          /\ redirectURL' \in RedirectURLs
          /\ UNCHANGED loginResult
       \/ /\ lnOpen' = FALSE
          /\ lpc' = "returned"
          /\ loginResult' = Err("bind")
          /\ UNCHANGED redirectURL
    /\ UNCHANGED <<storeVars, apiVars, expState, handlers, tokenChan, errorChan, spc,
                   credentials, pkce, authURL>>
    /\ UNCHANGED otherVars

\* runLogin from the already-logged-in check to the start of the callback server
LoginPrepare ==
    /\ cmd = "login" /\ lpc = "bound"
    /\ \/ /\ HasValidCredentials(store)      \* the user declines to log in again
          /\ lpc' = "returned"
          /\ loginResult' = NoErr
          /\ UNCHANGED <<expState, spc, pkce, authURL>>
       \/ /\ lpc' = "returned"               \* no OAuth2 configuration
          /\ loginResult' = Err("config")
          /\ UNCHANGED <<expState, spc, pkce, authURL>>
       \/ /\ \E r \in AttemptRandoms :
                /\ expState' = r.state
                /\ pkce' = GeneratePKCEParams(r.verifier)
          /\ authURL' = buildAuthorizationURL(redirectURL, expState', pkce'.CodeChallenge)
          /\ spc' = "serving"
          /\ lpc' = "waiting"
          /\ UNCHANGED loginResult
    /\ UNCHANGED <<cmd, storeVars, apiVars, lnOpen, handlers, tokenChan, errorChan,
                   credentials, redirectURL>>
    /\ UNCHANGED otherVars

\* a request reaches /callback: handleCallback up to its first blocking point
CallbackArrives ==
    /\ cmd = "login" /\ spc = "serving" /\ lnOpen
    /\ Len(handlers) < MaxCallbacks
    /\ \E code \in Codes, st \in LoginStates, errp \in ErrorParams :
         LET chk == CheckCallback(code, st, errp, expState) IN
         handlers' = Append(handlers,
             [stage |-> IF chk = "pass" THEN "exchange" ELSE "sendErr",
              code |-> code, state |-> st, error |-> errp,
              err |-> IF chk = "pass" THEN "" ELSE chk,
              exchanged |-> FALSE, creds |-> NoFile, form |-> NoParams])
    /\ UNCHANGED <<cmd, storeVars, apiVars, lpc, lnOpen, expState, tokenChan, errorChan,
                   spc, credentials, loginResult, pkceVars>>
    /\ UNCHANGED otherVars

\* exchangeCodeForToken in handler i
HandlerExchange(i) ==
    /\ cmd = "login"
    /\ i \in DOMAIN handlers
    /\ handlers[i].stage = "exchange"
    /\ LET form == exchangeForm(handlers[i].code, redirectURL, pkce.CodeVerifier) IN
       \/ handlers' = [handlers EXCEPT ![i].stage = "sendErr", ![i].err = "exchange",
                                       ![i].exchanged = TRUE, ![i].form = form]
       \/ \E c \in TokenResponses(now) :
            handlers' = [handlers EXCEPT ![i].stage = "sendTok", ![i].creds = c,
                                         ![i].exchanged = TRUE, ![i].form = form]
    /\ UNCHANGED <<cmd, storeVars, apiVars, lpc, lnOpen, expState, tokenChan, errorChan,
                   spc, credentials, loginResult, pkceVars>>
    /\ UNCHANGED otherVars

\* handler i sends on its channel once the buffer has room, and returns
HandlerSend(i) ==
    /\ cmd = "login"
    /\ i \in DOMAIN handlers
    /\ \/ /\ handlers[i].stage = "sendErr"
          /\ Len(errorChan) < 1
          /\ errorChan' = Append(errorChan, handlers[i].err)
          /\ handlers' = [handlers EXCEPT ![i].stage = "done"]
          /\ UNCHANGED tokenChan
       \/ /\ handlers[i].stage = "sendTok"
          /\ Len(tokenChan) < 1
          /\ tokenChan' = Append(tokenChan, handlers[i].creds)
          /\ handlers' = [handlers EXCEPT ![i].stage = "done", ![i].creds = NoFile]
          /\ UNCHANGED errorChan
    /\ UNCHANGED <<cmd, storeVars, apiVars, lpc, lnOpen, expState, spc, credentials,
                   loginResult, pkceVars>>
    /\ UNCHANGED otherVars

\* http.Serve returns once the listener is closed
ServeReturns ==
    /\ cmd = "login" /\ spc = "serving"
    /\ ~lnOpen
    /\ spc' = "sendErr"
    /\ UNCHANGED <<cmd, storeVars, apiVars, lpc, lnOpen, expState, handlers, tokenChan,
                   errorChan, credentials, loginResult, pkceVars>>
    /\ UNCHANGED otherVars

\* the serve goroutine reports the error of http.Serve
ServeSend ==
    /\ cmd = "login" /\ spc = "sendErr"
    /\ Len(errorChan) < 1
    /\ errorChan' = Append(errorChan, "serve")
    /\ spc' = "done"
    /\ UNCHANGED <<cmd, storeVars, apiVars, lpc, lnOpen, expState, handlers, tokenChan,
                   credentials, loginResult, pkceVars>>
    /\ UNCHANGED otherVars

\* the select of runLogin receives credentials
MainRecvToken ==
    /\ cmd = "login" /\ lpc = "waiting"
    /\ tokenChan # <<>>
    /\ credentials' = Head(tokenChan)
    /\ tokenChan' = Tail(tokenChan)
    /\ lpc' = "gotToken"
    /\ UNCHANGED <<cmd, storeVars, apiVars, lnOpen, expState, handlers, errorChan, spc,
                   loginResult, pkceVars>>
    /\ UNCHANGED otherVars

\* the select of runLogin receives an error and returns it
MainRecvError ==
    /\ cmd = "login" /\ lpc = "waiting"
    /\ errorChan # <<>>
    /\ loginResult' = Err(Head(errorChan))
    /\ errorChan' = Tail(errorChan)
    /\ lpc' = "returned"
    /\ UNCHANGED <<cmd, storeVars, apiVars, lnOpen, expState, handlers, tokenChan, spc,
                   credentials, pkceVars>>
    /\ UNCHANGED otherVars

\* the five-minute timeout of the select passes
MainTimeout ==
    /\ cmd = "login" /\ lpc = "waiting"
    /\ loginResult' = Err("timeout")
    /\ lpc' = "returned"
    /\ UNCHANGED <<cmd, storeVars, apiVars, lnOpen, expState, handlers, tokenChan,
                   errorChan, spc, credentials, pkceVars>>
    /\ UNCHANGED otherVars

\* after the select: ln.Close(), SaveCredentials, return
MainSave ==
    /\ cmd = "login" /\ lpc = "gotToken"
    /\ lnOpen' = FALSE
    /\ \E sv \in SaveCredentials(store, credentials) :
         /\ store' = sv.store
         /\ loginResult' = sv.err
    /\ lpc' = "returned"
    /\ UNCHANGED <<cmd, now, apiVars, expState, handlers, tokenChan, errorChan,
                   spc, credentials, pkceVars>>
    /\ UNCHANGED otherVars

\* runLogin has returned and the process ends
LoginExit ==
    /\ cmd = "login" /\ lpc = "returned"
    /\ cmd' = "exited"
    /\ Cleared
    /\ UNCHANGED storeVars
    /\ UNCHANGED otherVars

(***************************************************************************)
(* Pagination engine: getPaginated and parseNextLink                       *)
(***************************************************************************)
\* the Link headers a page may carry: links <target>; rel="..." in order
LinkHeaders ==
    {<<>>, <<[page |-> MaxPages, rel |-> "last"]>>}
    \cup {<<[page |-> q, rel |-> "next"]>> : q \in 1..MaxPages}
    \cup {<<[page |-> MaxPages, rel |-> "last"], [page |-> q, rel |-> "next"]>>
            : q \in 1..MaxPages}

\* variant: the first link is followed whatever its rel is
parseNextLinkAnyRel(linkHeader) ==
    IF linkHeader = <<>> THEN 0 ELSE linkHeader[1].page

\* parseNextLink: the target of the first link whose rel is "next", "" if none
parseNextLink(linkHeader) ==
    LET hits == {i \in DOMAIN linkHeader : linkHeader[i].rel = "next"} IN
    IF hits = {} THEN 0
    ELSE linkHeader[CHOOSE i \in hits : \A j \in hits : i <= j].page

\* the items of page p, in the order of the response body
PageItems(p) == [i \in 1..srvLen[p] |-> <<p, i>>]

\* getPaginated may issue one more request
MaxRequests == MaxPages + 1

DrainIdle ==
    /\ srvLink = <<>>
    /\ srvLen = <<>>
    /\ dpc = "idle"
    /\ nextURL = 0
    /\ allItems = <<>>
    /\ requested = <<>>
    /\ drainErr = NoErr

\* getPaginated is called on some listing: nextURL = path + page[size]
StartDrain ==
    /\ dpc = "idle"
    /\ srvLink' \in [1..MaxPages -> LinkHeaders]
    /\ srvLen' \in [1..MaxPages -> {PerPage - 1, PerPage}]
    /\ nextURL' = 1
    /\ allItems' = <<>>
    /\ requested' = <<>>
    /\ drainErr' = NoErr
    /\ dpc' = "loop"
    /\ UNCHANGED <<cliVars, auxVars, ruleVars, scanVars>>

\* one iteration of the loop: doRequest, read, decode, append, parseNextLink
DrainRequest ==
    /\ dpc = "loop"
    /\ nextURL # 0
    /\ Len(requested) < MaxRequests
    /\ requested' = Append(requested, nextURL)
    /\ \/ /\ drainErr' = Err("page")      \* doRequest, ReadAll or Unmarshal failed
          /\ allItems' = <<>>
          /\ dpc' = "done"
          /\ UNCHANGED nextURL
       \/ /\ allItems' = allItems \o PageItems(nextURL)
          /\ nextURL' = parseNextLink(srvLink[nextURL])
          /\ UNCHANGED <<dpc, drainErr>>
    /\ UNCHANGED <<cliVars, auxVars, ruleVars, scanVars, srvLink, srvLen>>

\* the loop ends on an empty nextURL
DrainReturn ==
    /\ dpc = "loop"
    /\ nextURL = 0
    /\ dpc' = "done"
    /\ UNCHANGED <<cliVars, auxVars, ruleVars, scanVars, srvLink, srvLen, nextURL,
                   allItems, requested, drainErr>>

\* the caller has the result
DrainExit ==
    /\ dpc = "done"
    /\ srvLink' = <<>>
    /\ srvLen' = <<>>
    /\ dpc' = "idle"
    /\ nextURL' = 0
    /\ allItems' = <<>>
    /\ requested' = <<>>
    /\ drainErr' = NoErr
    /\ UNCHANGED <<cliVars, auxVars, ruleVars, scanVars>>

(***************************************************************************)
(* Inscription rules of the eligible command (cmd/eligible.go)             *)
(***************************************************************************)
ProjectSlugs == {"p1", "p2"}

ProjectStatuses ==
    {"in_progress", "waiting_for_correction", "creating_group", "searching_a_group",
     "finished", "parent"}

\* a projects_users record; validated is a *bool
ProjectUsers ==
    [slug : ProjectSlugs, status : ProjectStatuses, validated : {"nil", "true", "false"}]

ProjectUserLists == UNION { [1..n -> ProjectUsers] : n \in 0..MaxProjects }

\* variant: only in_progress counts as ongoing
OngoingStatusesShort == {"in_progress"}

\* the statuses checkForbiddenProjects treats as ongoing
OngoingStatuses ==
    {"in_progress", "waiting_for_correction", "creating_group", "searching_a_group"}

RECURSIVE checkForbiddenLoop(_, _)
\* the range loop of checkForbiddenProjects over the records left
checkForbiddenLoop(pus, forbiddenSet) ==
    IF pus = <<>> THEN TRUE
    ELSE LET pu == Head(pus) IN
         IF pu.slug \notin forbiddenSet THEN checkForbiddenLoop(Tail(pus), forbiddenSet)
         ELSE IF pu.status = "finished" /\ pu.validated = "true" THEN FALSE
         ELSE IF pu.status \in OngoingStatuses THEN FALSE
         ELSE checkForbiddenLoop(Tail(pus), forbiddenSet)

\* checkForbiddenProjects: TRUE when no forbidden project is ongoing or validated
checkForbiddenProjects(pus, forbidden) ==
    IF forbidden = {} THEN TRUE ELSE checkForbiddenLoop(pus, forbidden)

\* no candidate under check
ProjectRuleIdle ==
    /\ projectUsers = <<>>
    /\ forbiddenProjects = {}
    /\ verdict = "none"

\* the scan applies checkForbiddenProjects to the candidate
CheckForbidden ==
    /\ verdict = "none"
    /\ verdict' = IF checkForbiddenProjects(projectUsers, forbiddenProjects)
                  THEN "accept" ELSE "reject"
    /\ UNCHANGED <<cliVars, auxVars, drainVars, scanVars, projectUsers, forbiddenProjects,
                   questRuleVars, parseVars, forbiddenQuestVars>>

QuestSlugs == {"q1", "q2"}

\* a quests_users record; validatedAt is a *time.Time
QuestUsers == [slug : QuestSlugs, validatedAt : {"nil", "set"}]

QuestUserLists == UNION { [1..n -> QuestUsers] : n \in 0..MaxQuests }

\* a []string of quest slugs
QuestSlugLists == UNION { [1..n -> QuestSlugs] : n \in 0..2 }

\* variant: every quest record counts as validated
ValidatedSlugsAnyRecord(qus) == { qus[i].slug : i \in DOMAIN qus }

\* the keys of the map checkRequiredQuests builds: slugs with a validation date
ValidatedSlugs(qus) ==
    { qus[i].slug : i \in {j \in DOMAIN qus : qus[j].validatedAt # "nil"} }

\* checkRequiredQuests: TRUE when every required slug is validated
checkRequiredQuests(qus, required) ==
    IF Len(required) = 0 THEN TRUE
    ELSE \A i \in DOMAIN required : required[i] \in ValidatedSlugs(qus)

\* variant: the validation timestamp is not looked at
IsForbiddenHitAnyRecord(qu, forbiddenSet) == qu.slug \in forbiddenSet

\* the test of checkForbiddenQuests on one record
IsForbiddenHit(qu, forbiddenSet) == qu.validatedAt # "nil" /\ qu.slug \in forbiddenSet

RECURSIVE checkForbiddenQuestsLoop(_, _)
\* the range loop of checkForbiddenQuests over the records left
checkForbiddenQuestsLoop(qus, forbiddenSet) ==
    IF qus = <<>> THEN TRUE
    ELSE IF IsForbiddenHit(Head(qus), forbiddenSet) THEN FALSE
    ELSE checkForbiddenQuestsLoop(Tail(qus), forbiddenSet)

\* checkForbiddenQuests: TRUE when no forbidden quest is validated
checkForbiddenQuests(qus, forbidden) ==
    IF Len(forbidden) = 0 THEN TRUE
    ELSE checkForbiddenQuestsLoop(qus, { forbidden[i] : i \in DOMAIN forbidden })

QuestRuleIdle ==
    /\ questUsers = <<>>
    /\ requiredQuests = <<>>
    /\ questVerdict = "none"

\* the scan applies checkRequiredQuests to the candidate
CheckRequired ==
    /\ questVerdict = "none"
    /\ questVerdict' = IF checkRequiredQuests(questUsers, requiredQuests)
                       THEN "accept" ELSE "reject"
    /\ UNCHANGED <<cliVars, auxVars, drainVars, scanVars, projectRuleVars, questUsers,
                   requiredQuests, parseVars, forbiddenQuestVars>>

ForbiddenQuestIdle ==
    /\ forbiddenQuests = <<>>
    /\ fqVerdict = "idle"

\* the scan applies checkForbiddenQuests to the candidate
CheckForbiddenQuests ==
    /\ fqVerdict = "none"
    /\ fqVerdict' = IF checkForbiddenQuests(questUsers, forbiddenQuests)
                    THEN "accept" ELSE "reject"
    /\ UNCHANGED <<cliVars, auxVars, drainVars, scanVars, projectRuleVars, questRuleVars,
                   parseVars, forbiddenQuests>>

RuleKinds == {"inscription", "correction"}

RuleInternalNames ==
    {"QuestsValidated", "QuestsNotValidated", "NeitherOngoingOrValidated",
     "GroupValidation"}

\* the values of a rule's params, in order
ParamLists == {<<>>, <<"v1">>, <<"v2">>, <<"v1", "v2">>}

\* a ProjectSessionRule: rule.Rule.Kind, rule.Rule.InternalName, rule.Params
SessionRules == [kind : RuleKinds, internalName : RuleInternalNames, params : ParamLists]

SessionRuleLists == UNION { [1..n -> SessionRules] : n \in 0..MaxRules }

\* var reqs inscriptionRequirements
NoReqs == [requiredQuests |-> <<>>, forbiddenQuests |-> <<>>, forbiddenProjects |-> <<>>]

\* variant: the kind of the rule is not looked at
IsInscriptionAnyKind(rule) == TRUE

\* the rules parseInscriptionRules does not skip
IsInscription(rule) == rule.kind = "inscription"

\* the body of the loop of parseInscriptionRules on one rule
parseOneRule(acc, rule) ==
    IF ~IsInscription(rule) THEN acc
    ELSE IF rule.internalName = "QuestsValidated"
         THEN [acc EXCEPT !.requiredQuests = @ \o rule.params]
    ELSE IF rule.internalName = "QuestsNotValidated"
         THEN [acc EXCEPT !.forbiddenQuests = @ \o rule.params]
    ELSE IF rule.internalName = "NeitherOngoingOrValidated"
         THEN [acc EXCEPT !.forbiddenProjects = @ \o rule.params]
    ELSE acc

RECURSIVE parseRulesFrom(_, _)
\* the loop of parseInscriptionRules over the rules left
parseRulesFrom(acc, rs) ==
    IF rs = <<>> THEN acc ELSE parseRulesFrom(parseOneRule(acc, Head(rs)), Tail(rs))

parseInscriptionRules(rs) == parseRulesFrom(NoReqs, rs)

ParseIdle ==
    /\ rules = <<>>
    /\ reqs = NoReqs
    /\ parsed = FALSE

\* runEligible parses the rules of the session
ParseRules ==
    /\ ~parsed
    /\ reqs' = parseInscriptionRules(rules)
    /\ parsed' = TRUE
    /\ UNCHANGED <<cliVars, auxVars, drainVars, scanVars, projectRuleVars, questRuleVars,
                   rules, forbiddenQuestVars>>

RuleIdle ==
    /\ ProjectRuleIdle
    /\ QuestRuleIdle
    /\ ParseIdle
    /\ ForbiddenQuestIdle

(***************************************************************************)
(* Candidate scan of the eligible command (cmd/eligible.go, runEligible)   *)
(***************************************************************************)
\* now := time.Now(), taken once before the scan; times are relative to it
ScanNow == 0

\* cu.BlackholedAt, a *time.Time: <<>> is nil
BlackholeTimes == {<<>>, <<-1>>, <<0>>, <<1>>}

\* session.ProjectSessionsRules of the scanned project: no rule, one rule
\* of each inscription kind, or only a rule that is not an inscription rule
ScanRuleLists ==
    { <<>>,
      << [kind |-> "inscription", internalName |-> "QuestsValidated",
          params |-> <<"q1">>],
         [kind |-> "inscription", internalName |-> "QuestsNotValidated",
          params |-> <<"q2">>],
         [kind |-> "inscription", internalName |-> "NeitherOngoingOrValidated",
          params |-> <<"p1">>] >>,
      << [kind |-> "correction", internalName |-> "QuestsValidated",
          params |-> <<"q1">>] >> }

\* fullUser.ProjectsUsers of a candidate
ScanProfiles ==
    { <<>>,
      << [slug |-> "p1", status |-> "in_progress", validated |-> "nil"] >>,
      << [slug |-> "p1", status |-> "finished", validated |-> "true"] >>,
      << [slug |-> "p1", status |-> "finished", validated |-> "false"] >> }

\* the quests_users records of a candidate
ScanQuestHistories ==
    { <<>>,
      << [slug |-> "q1", validatedAt |-> "nil"] >>,
      << [slug |-> "q1", validatedAt |-> "set"] >>,
      << [slug |-> "q2", validatedAt |-> "set"] >>,
      << [slug |-> "q1", validatedAt |-> "set"], [slug |-> "q2", validatedAt |-> "set"] >> }

\* the forbiddenSet checkForbiddenProjects builds from a []string
SlugSet(slugs) == { slugs[i] : i \in DOMAIN slugs }

\* variant: the blackhole date is not looked at
IsBlackholedNever(bhAt, t) == FALSE

\* cu.BlackholedAt != nil && cu.BlackholedAt.Before(now)
IsBlackholed(bhAt, t) == bhAt # <<>> /\ bhAt[1] < t

\* variant: the scan stops one candidate late
LimitReachedLate(n, lim) == n > lim

\* len(eligible) >= limit, the negation of the condition of the for loop
LimitReached(n, lim) == n >= lim

\* the body of the range loop on one candidate: where it continues, or "accepted"
CandidateOutcome(bhAt, ended, userErr, fpOk, questErr, rqOk, fqOk) ==
    IF IsBlackholed(bhAt, ScanNow) THEN "blackholed"
    ELSE IF ended THEN "ended"
    ELSE IF userErr THEN "user_error"
    ELSE IF ~fpOk THEN "forbidden_project"
    ELSE IF questErr THEN "quest_error"
    ELSE IF ~rqOk THEN "required_quest"
    ELSE IF ~fqOk THEN "forbidden_quest"
    ELSE "accepted"

\* number of candidates the listing returns for page p
ServedLen(p) ==
    IF p < srvPages THEN PerPage
    ELSE IF p = srvPages THEN srvLastLen
    ELSE 0

ScanIdle ==
    /\ srvPages = 0
    /\ srvLastLen = 0
    /\ srvTotalPages = FALSE
    /\ scpc = "idle"
    /\ limit = 0
    /\ currentPage = 0
    /\ pageLen = 0
    /\ pos = 0
    /\ metaTotalPages = 0
    /\ eligible = <<>>
    /\ totalChecked = 0
    /\ totalAPIPages = 0
    /\ apiFailed = FALSE
    /\ scanErr = NoErr
    /\ lastOutcome = "none"

\* runEligible reaches the scan with some --limit, on some listing
StartScan ==
    /\ scpc = "idle"
    /\ limit' \in 0..MaxLimit
    /\ srvPages' \in 1..MaxPages
    /\ srvLastLen' \in 0..PerPage
    /\ srvPages' > 1 => srvLastLen' > 0
    /\ srvTotalPages' \in BOOLEAN
    /\ currentPage' = 1
    /\ eligible' = <<>>
    /\ totalChecked' = 0
    /\ totalAPIPages' = 0
    /\ scpc' = "loop"
    /\ \E rs \in ScanRuleLists : reqs' = parseInscriptionRules(rs)
    /\ UNCHANGED <<cliVars, auxVars, drainVars, projectRuleVars, questRuleVars, rules, parsed,
                   forbiddenQuestVars, pageLen, pos, metaTotalPages, apiFailed, scanErr, lastOutcome>>

\* the condition of the for loop, then ListCursusUsers for currentPage
ScanLoop ==
    /\ scpc = "loop"
    /\ IF LimitReached(Len(eligible), limit)
       THEN /\ scpc' = "done"
            /\ UNCHANGED <<pageLen, pos, metaTotalPages, totalAPIPages, apiFailed,
                           scanErr>>
       ELSE \/ /\ scanErr' = Err("list")          \* fetchErr != nil
               /\ apiFailed' = TRUE
               /\ scpc' = "done"
               /\ UNCHANGED <<pageLen, pos, metaTotalPages, totalAPIPages>>
            \/ /\ pageLen' = ServedLen(currentPage)
               /\ metaTotalPages' = IF srvTotalPages THEN srvPages ELSE 0
               /\ totalAPIPages' = totalAPIPages + 1
               /\ pos' = 0
               /\ scpc' = "page"
               /\ UNCHANGED <<apiFailed, scanErr>>
    /\ UNCHANGED <<cliVars, auxVars, drainVars, ruleVars, srvPages, srvLastLen, srvTotalPages,
                   limit, currentPage, eligible, totalChecked, lastOutcome>>

\* variant: the newest accepted candidate is put first
AppendEligibleFirst(list, user) == <<user>> \o list

\* eligible = append(eligible, eligibleUser{...})
AppendEligible(list, user) == Append(list, user)

\* the body of the range loop for the next candidate of the page
ScanCandidate ==
    /\ scpc = "page"
    /\ pos < pageLen
    /\ pos' = pos + 1
    /\ totalChecked' = totalChecked + 1
    /\ \E bhAt \in BlackholeTimes, ended \in BOOLEAN, userErr \in BOOLEAN,
          pus \in ScanProfiles, questErr \in BOOLEAN, qus \in ScanQuestHistories :
         LET fpOk == checkForbiddenProjects(pus, SlugSet(reqs.forbiddenProjects))
             rqOk == checkRequiredQuests(qus, reqs.requiredQuests)
             fqOk == checkForbiddenQuests(qus, reqs.forbiddenQuests)
             out == CandidateOutcome(bhAt, ended, userErr, fpOk, questErr, rqOk, fqOk)
             acc == AppendEligible(eligible,
                           [page |-> currentPage, pos |-> pos + 1,
                            bhPast |-> bhAt # <<>> /\ bhAt[1] < 0,
                            ended |-> ended])
         IN  /\ lastOutcome' = out
             /\ apiFailed' = (apiFailed \/ out \in {"user_error", "quest_error"})
             /\ eligible' = IF out = "accepted" THEN acc ELSE eligible
             /\ scpc' = IF out = "accepted" /\ LimitReached(Len(acc), limit)
                        THEN "after" ELSE "page"
    /\ UNCHANGED <<cliVars, auxVars, drainVars, ruleVars, srvPages, srvLastLen, srvTotalPages,
                   limit, currentPage, pageLen, metaTotalPages, totalAPIPages, scanErr>>

\* after the range loop: stop if there are no more pages, else the next page
ScanAfterPage ==
    /\ \/ scpc = "after"
       \/ scpc = "page" /\ pos = pageLen
    /\ IF pageLen < PerPage \/ currentPage >= metaTotalPages
       THEN /\ scpc' = "done"
            /\ UNCHANGED currentPage
       ELSE /\ currentPage' = currentPage + 1
            /\ scpc' = "loop"
    /\ UNCHANGED <<cliVars, auxVars, drainVars, ruleVars, srvPages, srvLastLen, srvTotalPages,
                   limit, pageLen, pos, metaTotalPages, eligible, totalChecked,
                   totalAPIPages, apiFailed, scanErr, lastOutcome>>

\* runEligible prints the result and returns
ScanExit ==
    /\ scpc = "done"
    /\ srvPages' = 0
    /\ srvLastLen' = 0
    /\ srvTotalPages' = FALSE
    /\ scpc' = "idle"
    /\ limit' = 0
    /\ currentPage' = 0
    /\ pageLen' = 0
    /\ pos' = 0
    /\ metaTotalPages' = 0
    /\ eligible' = <<>>
    /\ totalChecked' = 0
    /\ totalAPIPages' = 0
    /\ apiFailed' = FALSE
    /\ scanErr' = NoErr
    /\ lastOutcome' = "none"
    /\ reqs' = NoReqs
    /\ UNCHANGED <<cliVars, auxVars, drainVars, projectRuleVars, questRuleVars, rules, parsed,
                   forbiddenQuestVars>>

(***************************************************************************)
(* PKCE parameters (internal/oauth/pkce.go)                                *)
(***************************************************************************)
\* bytes of the verifier before encoding
codeVerifierLength == 64

\* byte strings crypto/rand may deliver
RandomBytes ==
    { [i \in 1..codeVerifierLength |-> (a * i + b) % 256] :
        a \in 0..MaxSeed, b \in 0..MaxSeed }

\* base64.RawURLEncoding.EncodeToString: 6-bit groups of the input, most
\* significant first, as indices into the URL alphabet; no padding
RawURLEncoding(src) ==
    LET n == Len(src)
        outLen == (n \div 3) * 4 + ((n % 3) * 8 + 5) \div 6
        byte(i) == IF i <= n THEN src[i] ELSE 0
        val(k) == byte(3 * k + 1) * 65536 + byte(3 * k + 2) * 256 + byte(3 * k + 3)
        shift(q) == CASE q = 0 -> 262144 [] q = 1 -> 4096 [] q = 2 -> 64 [] q = 3 -> 1
    IN  [j \in 1..outLen |-> (val((j - 1) \div 4) \div shift((j - 1) % 4)) % 64]

\* generateCodeVerifier on the bytes read
generateCodeVerifier(bytes) == RawURLEncoding(bytes)

PkceGenIdle ==
    /\ randBytes = <<>>
    /\ gpc = "idle"
    /\ generated = <<>>

\* GeneratePKCEParams: rand.Read fails, or the pair is built from the bytes
GeneratePKCE ==
    /\ gpc = "idle"
    /\ randBytes # <<>>
    /\ \/ /\ gpc' = "err"
          /\ generated' = <<>>
       \/ /\ gpc' = "ok"
          /\ generated' = <<GeneratePKCEParams(generateCodeVerifier(randBytes))>>
    /\ UNCHANGED <<cliVars, drainVars, ruleVars, scanVars, randBytes, fileVars,
                   respVars, cmdVars, bhVars>>

(***************************************************************************)
(* The credential file on disk (internal/config, SaveCredentials)          *)
(***************************************************************************)
\* the permission argument of os.WriteFile: 0600
OwnerOnly == 384

\* permission bits an existing credential file may have: 0600, 0640 or 0644
FileModes == {OwnerOnly, 416, 420}

\* os.WriteFile opens with O_WRONLY|O_CREATE|O_TRUNC: perm is applied only
\* when the file is created
OpenMode(mode, perm) == IF mode = <<>> THEN <<perm>> ELSE mode

FileIdle ==
    /\ fileMode = <<>>
    /\ saved = "idle"

\* a call of SaveCredentials, the first or a later one
SaveCall ==
    /\ saved # "idle"
    /\ \E creds \in Credentials :
         \E sv \in SaveCredentials(store, creds) :
            /\ store' = sv.store
            /\ saved' = IF sv.err = NoErr THEN "ok" ELSE "err"
            /\ fileMode' = IF sv.err # NoErr /\ sv.store = store
                           THEN fileMode            \* failed before the file was opened
                           ELSE OpenMode(fileMode, OwnerOnly)
    /\ UNCHANGED <<cmd, now, apiVars, loginVars, drainVars, ruleVars, scanVars,
                   pkceGenVars, respVars, cmdVars, bhVars>>

(***************************************************************************)
(* Response handling on any response (api.go handleResponse; the client    *)
(* of part_001: doRequest and get)                                         *)
(***************************************************************************)
\* status codes http.Client.Do may hand back, redirects without a Location
\* and 304 included
AnyStatuses == {200, 204, 300, 304, 400, 404, 500}

\* the status field a JSON body may carry, 0 for none
BodyStatuses == {0, 404, 500}

\* the responses: only a JSON body has fields
\* the message and error_description fields of a JSON error body, "" when
\* the body has none
BodyMessages == {"", "not found"}

BodyDescriptions == {"", "token expired"}

AnyResponses ==
    { r \in [status : AnyStatuses, body : Bodies, closed : BOOLEAN,
             bodyStatus : BodyStatuses, message : BodyMessages,
             description : BodyDescriptions] :
        r.body # "json" => (r.bodyStatus = 0 /\ r.message = "" /\ r.description = "") }

\* fmt "API error (status %d): %s"
ApiErrorText(status, text) == <<[status |-> status, text |-> text]>>

\* handleResponse of api.go: the text of the API error it builds from a JSON body
handleResponseMessage(resp) ==
    IF handleResponse(resp).kind = "api"
    THEN ApiErrorText(handleResponse(resp).status, resp.message)
    ELSE <<>>

\* APIError.Error of part_001
APIErrorError(statusCode, response) ==
    LET msg == IF response.message = "" THEN response.description
               ELSE response.message
    IN  ApiErrorText(statusCode, msg)

\* get of part_001 on the response: doRequest turns every status outside
\* 200-299 into an error, get decodes what is left
legacyGet(resp) ==
    IF resp.status < 200 \/ resp.status >= 300
    THEN IF resp.body = "json" /\ ~resp.closed
         THEN ApiErr(resp.status)
         ELSE [kind |-> "apistatus", status |-> resp.status]
    ELSE IF resp.body = "json" /\ ~resp.closed THEN NoErr
    ELSE Err("decode")

\* get of part_001: the text of the APIError doRequest returns
legacyGetMessage(resp) ==
    IF legacyGet(resp).kind = "api" THEN APIErrorError(resp.status, resp) ELSE <<>>

\* get of part_001 reaches Decode(target)
legacyGetDecodes(resp) == ~(resp.status < 200 \/ resp.status >= 300)

RespIdle ==
    /\ hrResp = NoResp
    /\ hrBy = "idle"
    /\ hrOut = NoErr
    /\ hrDecoded = FALSE
    /\ hrMsg = <<>>

\* Client.handleResponse of api.go on the response
HandleResponseCall ==
    /\ hrBy = "ready"
    /\ hrBy' = "handleResponse"
    /\ hrOut' = handleResponse(hrResp)
    /\ hrDecoded' = handleResponseDecodes(hrResp)
    /\ hrMsg' = handleResponseMessage(hrResp)
    /\ UNCHANGED <<cliVars, drainVars, ruleVars, scanVars, pkceGenVars, fileVars, hrResp,
                   cmdVars, bhVars>>

\* Client.get of part_001 on the response
LegacyGetCall ==
    /\ hrBy = "ready"
    /\ hrBy' = "get"
    /\ hrOut' = legacyGet(hrResp)
    /\ hrDecoded' = legacyGetDecodes(hrResp)
    /\ hrMsg' = legacyGetMessage(hrResp)
    /\ UNCHANGED <<cliVars, drainVars, ruleVars, scanVars, pkceGenVars, fileVars, hrResp,
                   cmdVars, bhVars>>

(***************************************************************************)
(* Commands resolving a campus name (cmd/user.go runListUsers, the head of *)
(* cmd/eligible.go runEligible)                                            *)
(***************************************************************************)
\* the length of the campus list an error message is cut to
MaxListed == 10

\* a string as a word and its letter case
EmptyName == [word |-> 0, upper |-> FALSE]

\* strings.ToLower
ToLower(str) == [str EXCEPT !.upper = FALSE]

\* campus i of the API: its name and its city are different words
Campus(i) ==
    [id |-> i, name |-> [word |-> i, upper |-> TRUE],
     city |-> [word |-> 100 + i, upper |-> TRUE]]

\* the lists ListCampuses may return
CampusLists == { [i \in 1..n |-> Campus(i)] : n \in 0..MaxCampuses }

\* values of --campus: none, the name of campus 1 in lower case, the city of
\* campus 2, a word no campus has
NameFlags ==
    { EmptyName, [word |-> 1, upper |-> FALSE], [word |-> 102, upper |-> TRUE],
      [word |-> 99, upper |-> FALSE] }

\* the flags of user list
ListFlags ==
    [campus : NameFlags, campusID : {0, 2}, cursusID : {0, 21},
     active : BOOLEAN, inactive : BOOLEAN, alumni : BOOLEAN, nonAlumni : BOOLEAN,
     staff : BOOLEAN, minLevel : {0, 1}, blackholeStatus : {"", "past"}]

\* the flags of user eligible that the head of runEligible reads
EligibleFlags ==
    { f \in ListFlags :
        /\ f.cursusID = 21 /\ f.minLevel = 0 /\ f.blackholeStatus = ""
        /\ ~f.active /\ ~f.inactive /\ ~f.alumni /\ ~f.nonAlumni /\ ~f.staff }

NoOutcome == [err |-> "pending", listed |-> 0, requests |-> <<>>, criteria |-> {}]

Request(endpoint, campusID, filters) ==
    [endpoint |-> endpoint, campusID |-> campusID, filters |-> filters]

\* the indices of the campuses whose name or city equals the name, case aside
CampusHits(list, name) ==
    { i \in DOMAIN list :
        \/ ToLower(list[i].name) = ToLower(name)
        \/ ToLower(list[i].city) = ToLower(name) }

\* campusID after the lookup loop: the first hit, or the value of --campus-id
ResolvedCampusID(list, name, campusID) ==
    LET hits == CampusHits(list, name) IN
    IF hits = {} THEN campusID
    ELSE list[CHOOSE i \in hits : \A j \in hits : i <= j].id

\* opts.FilterActive, opts.FilterAlumni, opts.FilterStaff as query parameters
OptsFilters(f) ==
    (IF f.active /\ ~f.inactive THEN {<<"active", "true">>}
     ELSE IF f.inactive /\ ~f.active THEN {<<"active", "false">>} ELSE {})
    \cup (IF f.alumni /\ ~f.nonAlumni THEN {<<"alumni?", "true">>}
          ELSE IF f.nonAlumni /\ ~f.alumni THEN {<<"alumni?", "false">>} ELSE {})
    \cup (IF f.staff THEN {<<"staff?", "true">>} ELSE {})

\* the listing request runListUsers issues for campus cid
ListingRequest(f, cid) ==
    LET needsFullData == f.cursusID > 0 \/ f.minLevel > 0 \/ f.blackholeStatus # "" IN
    IF needsFullData /\ f.cursusID > 0
    THEN Request("cursus_users", cid, {})       \* cursusOpts sets no filter
    ELSE IF cid > 0 THEN Request("campus_users", cid, OptsFilters(f))
    ELSE Request("users", 0, OptsFilters(f))

\* the criteria filterUsers applies to the users returned
ListCriteria(f) ==
    (IF f.blackholeStatus # "" THEN {"blackhole_status"} ELSE {})
    \cup (IF f.minLevel > 0 THEN {"min_level"} ELSE {})

\* runListUsers from the listing call on, with the requests issued before it
listUsersFrom(f, cid, before) ==
    LET issued == Append(before, ListingRequest(f, cid)) IN
    { [err |-> "list_users", listed |-> 0, requests |-> issued, criteria |-> {}],
      [err |-> "", listed |-> 0, requests |-> issued, criteria |-> ListCriteria(f)] }

\* runListUsers: what the command may do
runListUsers(f, list) ==
    IF f.campus # EmptyName
    THEN LET lookup == <<Request("campuses", 0, {})>>
             cid == ResolvedCampusID(list, f.campus, f.campusID)
         IN  { [err |-> "list_campuses", listed |-> 0, requests |-> lookup,
                criteria |-> {}] }
             \cup (IF cid = 0
                   THEN { [err |-> "campus_not_found", listed |-> 0,
                           requests |-> lookup, criteria |-> {}] }
                   ELSE listUsersFrom(f, cid, lookup))
    ELSE listUsersFrom(f, f.campusID, <<>>)

\* runEligible up to its project lookup: what the command may do
runEligibleHead(f, list) ==
    LET lookup == IF f.campus # EmptyName THEN <<Request("campuses", 0, {})>> ELSE <<>>
        cid == IF f.campus # EmptyName
               THEN ResolvedCampusID(list, f.campus, f.campusID) ELSE f.campusID
        goesOn == [err |-> "", listed |-> 0,
                   requests |-> Append(lookup, Request("projects", cid, {})),
                   criteria |-> {}]
    IN  IF f.campus = EmptyName THEN {goesOn}
        ELSE { [err |-> "list_campuses", listed |-> 0, requests |-> lookup,
                criteria |-> {}] }
             \cup (IF cid = 0
                   THEN { [err |-> "campus_not_found",
                           listed |-> IF Len(list) > MaxListed THEN MaxListed
                                      ELSE Len(list),
                           requests |-> lookup, criteria |-> {}] }
                   ELSE {goesOn})

CmdIdle ==
    /\ lcmd = "idle"
    /\ flags = <<>>
    /\ campuses = <<>>
    /\ outcome = NoOutcome

\* t42 user list
RunListUsers ==
    /\ lcmd = "list" /\ outcome = NoOutcome
    /\ outcome' \in runListUsers(flags, campuses)
    /\ UNCHANGED <<cliVars, drainVars, ruleVars, scanVars, pkceGenVars, fileVars, respVars,
                   lcmd, flags, campuses, bhVars>>

\* t42 user eligible, up to the project lookup
RunEligibleHead ==
    /\ lcmd = "eligible" /\ outcome = NoOutcome
    /\ outcome' \in runEligibleHead(flags, campuses)
    /\ UNCHANGED <<cliVars, drainVars, ruleVars, scanVars, pkceGenVars, fileVars, respVars,
                   lcmd, flags, campuses, bhVars>>

(***************************************************************************)
(* matchesBlackholeStatus (cmd/user.go)                                    *)
(***************************************************************************)
\* a nullable time: <<>> for nil, <<t>> for the time t
Dates == {<<>>} \cup { <<t>> : t \in 0..MaxTime }

NilCursusUser == [nil |-> TRUE, blackholedAt |-> <<>>, endAt |-> <<>>]

CursusUsers ==
    {NilCursusUser} \cup [nil : {FALSE}, blackholedAt : Dates, endAt : Dates]

BlackholeStatuses == {"none", "active", "past", "upcoming", "all"}

BlackholeDays == {0, 1, 2}

\* the blackhole date lies before now
BlackholeBefore(cursusUser, tnow) == cursusUser.blackholedAt[1] < tnow

matchesBlackholeStatus(cursusUser, status, days, tnow) ==
    IF cursusUser.nil THEN status = "none"
    ELSE CASE status = "none" -> cursusUser.blackholedAt = <<>>
           [] status = "active" ->
                cursusUser.blackholedAt # <<>> /\ cursusUser.endAt = <<>>
           [] status = "past" ->
                cursusUser.blackholedAt # <<>> /\ BlackholeBefore(cursusUser, tnow)
           [] status = "upcoming" ->
                IF cursusUser.blackholedAt = <<>> THEN FALSE
                ELSE LET threshold == tnow + days IN
                     /\ cursusUser.blackholedAt[1] > tnow
                     /\ cursusUser.blackholedAt[1] < threshold
           [] OTHER -> TRUE

BhIdle ==
    /\ bhUser = NilCursusUser
    /\ bhStatus = ""
    /\ bhDays = 0
    /\ bhNow = 0
    /\ bhBy = "idle"
    /\ bhOut = FALSE

\* one call of matchesBlackholeStatus
MatchesBlackholeStatusCall ==
    /\ bhBy = "ready"
    /\ bhBy' = "done"
    /\ bhOut' = matchesBlackholeStatus(bhUser, bhStatus, bhDays, bhNow)
    /\ UNCHANGED <<cliVars, drainVars, ruleVars, scanVars, pkceGenVars, fileVars, respVars,
                   cmdVars, bhUser, bhStatus, bhDays, bhNow>>

AuxIdle ==
    /\ PkceGenIdle
    /\ FileIdle
    /\ RespIdle
    /\ CmdIdle
    /\ BhIdle

(***************************************************************************)
(* Specifications                                                          *)
(***************************************************************************)
InitStores ==
    {NoFile, Corrupt}
    \cup {c \in Credentials : c.createdAt = 0 /\ c.access # "a2"}

InitRest ==
    /\ cmd = "none"
    /\ now = 0
    /\ token = ""
    /\ refresher = "none"
    /\ pc = "idle"
    /\ phase = 1
    /\ attempt = 0
    /\ reqAuth = ""
    /\ log = <<>>
    /\ ctxDone = FALSE
    /\ drResp = NoResp
    /\ drErr = NoErr
    /\ result = NoErr
    /\ drCalls = 0
    /\ refreshCalls = 0
    /\ newToken = ""
    /\ refreshErr = NoErr
    /\ grants = 0
    /\ lpc = "idle"
    /\ lnOpen = FALSE
    /\ expState = ""
    /\ handlers = <<>>
    /\ tokenChan = <<>>
    /\ errorChan = <<>>
    /\ spc = "off"
    /\ credentials = NoFile
    /\ loginResult = NoErr
    /\ redirectURL = ""
    /\ pkce = NoPKCE
    /\ authURL = NoParams
    /\ DrainIdle
    /\ ScanIdle

\* the command-line client at rest and no candidate under check
InitIdle ==
    /\ InitRest
    /\ RuleIdle
    /\ AuxIdle

\* a client built by api.NewClient; the credential file plays no part
Init ==
    /\ store = NoFile
    /\ InitIdle

\* a candidate's project history and a set of forbidden projects
RuleInit ==
    /\ store = NoFile
    /\ InitRest
    /\ AuxIdle
    /\ \/ /\ projectUsers \in ProjectUserLists
          /\ forbiddenProjects \in SUBSET ProjectSlugs
          /\ verdict = "none"
          /\ QuestRuleIdle
          /\ ParseIdle
          /\ ForbiddenQuestIdle
       \/ /\ questUsers \in QuestUserLists
          /\ requiredQuests \in QuestSlugLists
          /\ questVerdict = "none"
          /\ ProjectRuleIdle
          /\ ParseIdle
          /\ ForbiddenQuestIdle
       \/ /\ rules \in SessionRuleLists
          /\ reqs = NoReqs
          /\ parsed = FALSE
          /\ ProjectRuleIdle
          /\ QuestRuleIdle
          /\ ForbiddenQuestIdle
       \/ /\ questUsers \in QuestUserLists
          /\ forbiddenQuests \in QuestSlugLists
          /\ fqVerdict = "none"
          /\ requiredQuests = <<>>
          /\ questVerdict = "none"
          /\ ProjectRuleIdle
          /\ ParseIdle

\* a call of GeneratePKCEParams on the bytes the random source delivers
PkceInit ==
    /\ store = NoFile
    /\ InitRest
    /\ RuleIdle
    /\ randBytes \in RandomBytes
    /\ gpc = "idle"
    /\ generated = <<>>
    /\ FileIdle
    /\ RespIdle
    /\ CmdIdle
    /\ BhIdle

\* a call of SaveCredentials on any credential file, with any permission bits
SaveInit ==
    /\ store \in InitStores
    /\ InitRest
    /\ RuleIdle
    /\ PkceGenIdle
    /\ fileMode \in IF store = NoFile THEN {<<>>} ELSE {<<m>> : m \in FileModes}
    /\ saved = "ready"
    /\ RespIdle
    /\ CmdIdle
    /\ BhIdle

\* a response handed to handleResponse or to get
RespInit ==
    /\ store = NoFile
    /\ InitRest
    /\ RuleIdle
    /\ PkceGenIdle
    /\ FileIdle
    /\ hrResp \in AnyResponses
    /\ hrBy = "ready"
    /\ hrOut = NoErr
    /\ hrDecoded = FALSE
    /\ hrMsg = <<>>
    /\ CmdIdle
    /\ BhIdle

\* an invocation of user list or user eligible against any campus list
CmdInit ==
    /\ store = NoFile
    /\ InitRest
    /\ RuleIdle
    /\ PkceGenIdle
    /\ FileIdle
    /\ RespIdle
    /\ \/ lcmd = "list" /\ flags \in ListFlags
       \/ lcmd = "eligible" /\ flags \in EligibleFlags
    /\ campuses \in CampusLists
    /\ outcome = NoOutcome
    /\ BhIdle

\* a call of matchesBlackholeStatus on any cursus record
BhInit ==
    /\ store = NoFile
    /\ InitRest
    /\ RuleIdle
    /\ PkceGenIdle
    /\ FileIdle
    /\ RespIdle
    /\ CmdIdle
    /\ bhUser \in CursusUsers
    /\ bhStatus \in BlackholeStatuses
    /\ bhDays \in BlackholeDays
    /\ bhNow \in 0..MaxTime
    /\ bhBy = "ready"
    /\ bhOut = FALSE

\* a command of the CLI started on any credential file
CliInit ==
    /\ store \in InitStores
    /\ InitIdle

Next ==
    \/ StartDirect
    \/ DoAttempt
    \/ BackoffElapsed
    \/ BackoffCancelled
    \/ Cancel
    \/ MakeRequestReturn
    \/ NextCall
    \/ Exit

CliNext ==
    \/ NewAPIClient
    \/ DoAttempt
    \/ BackoffElapsed
    \/ MakeRequestReturn
    \/ NextCall
    \/ Tick
    \/ Exit
    \/ StartLogin
    \/ LoginPrepare
    \/ CallbackArrives
    \/ \E i \in 1..MaxCallbacks : HandlerExchange(i)
    \/ \E i \in 1..MaxCallbacks : HandlerSend(i)
    \/ ServeReturns
    \/ ServeSend
    \/ MainRecvToken
    \/ MainRecvError
    \/ MainTimeout
    \/ MainSave
    \/ LoginExit

DrainNext ==
    \/ StartDrain
    \/ DrainRequest
    \/ DrainReturn
    \/ DrainExit

Spec == Init /\ [][Next]_vars

DrainSpec == Init /\ [][DrainNext]_vars

ScanNext ==
    \/ StartScan
    \/ ScanLoop
    \/ ScanCandidate
    \/ ScanAfterPage
    \/ ScanExit

ScanSpec == Init /\ [][ScanNext]_vars

RuleNext ==
    \/ CheckForbidden
    \/ CheckRequired
    \/ ParseRules
    \/ CheckForbiddenQuests

PkceNext == GeneratePKCE

SaveNext == SaveCall

RespNext == HandleResponseCall \/ LegacyGetCall

RespSpec == RespInit /\ [][RespNext]_vars

CmdNext == RunListUsers \/ RunEligibleHead

CmdSpec == CmdInit /\ [][CmdNext]_vars

BhNext == MatchesBlackholeStatusCall

BhSpec == BhInit /\ [][BhNext]_vars

SaveSpec == SaveInit /\ [][SaveNext]_vars

PkceSpec == PkceInit /\ [][PkceNext]_vars

RuleSpec == RuleInit /\ [][RuleNext]_vars

CliSpec == CliInit /\ [][CliNext]_vars

\* runLogin alone, from an empty credential file
LoginNext ==
    \/ StartLogin
    \/ LoginPrepare
    \/ CallbackArrives
    \/ \E i \in 1..MaxCallbacks : HandlerExchange(i)
    \/ \E i \in 1..MaxCallbacks : HandlerSend(i)
    \/ ServeReturns
    \/ ServeSend
    \/ MainRecvToken
    \/ MainRecvError
    \/ MainTimeout
    \/ MainSave
    \/ LoginExit

\* every goroutine of runLogin runs when it can: a handler's exchange returns
\* (its HTTP client has a timeout), a send or a receive that is ready is made,
\* the select of runLogin takes one of its ready cases (its timer fires at the
\* latest), and the process ends once runLogin has returned.  Nothing is
\* assumed about callbacks arriving.
LoginFairness ==
    /\ \A i \in 1..MaxCallbacks : WF_vars(HandlerExchange(i)) /\ WF_vars(HandlerSend(i))
    /\ WF_vars(ServeReturns)
    /\ WF_vars(ServeSend)
    /\ WF_vars(MainRecvToken \/ MainRecvError \/ MainTimeout)
    /\ WF_vars(MainSave)
    /\ WF_vars(LoginExit)

LoginFairSpec == Init /\ [][LoginNext]_vars /\ LoginFairness

\* the program's own steps are taken: the goroutine runs, timers fire, and
\* httpClient.Do returns (the client has a timeout)
FairSpec ==
    /\ Spec
    /\ WF_vars(DoAttempt)
    /\ WF_vars(BackoffElapsed)
    /\ WF_vars(BackoffCancelled)
    /\ WF_vars(MakeRequestReturn)

(***************************************************************************)
(* Properties of the request pipeline                                      *)
(***************************************************************************)
Last(sq) == sq[Len(sq)]

RetryableStatus(s) == s = 0 \/ s = 429 \/ s >= 500

ClientErrorStatus(s) == s >= 400 /\ s < 500 /\ s # 429

\* C1: on a 401 with a refresh callback registered, the callback is invoked
\* exactly once, the client's token becomes the token it returned, the request
\* is re-issued once more with that token, and a second 401 does not invoke
\* the callback again.
RefreshOnceOn401 ==
    /\ refreshCalls <= 1
    /\ drCalls <= 2
    /\ refreshCalls = 1 => refresher # "none"
    /\ phase = 2 =>
         /\ refreshCalls = 1
         /\ drCalls = 2
         /\ token = newToken
         /\ reqAuth = newToken
    /\ (pc = "done" /\ phase = 1 /\ drErr = NoErr /\ drResp.status = 401
          /\ refresher # "none") =>
         (refreshCalls = 1 /\ result = Err("refresh_failed") /\ drCalls = 1)
    /\ (pc = "done" /\ phase = 2 /\ drErr = NoErr /\ drResp.status = 401) =>
         (refreshCalls = 1 /\ result.status = 401)

\* a second 401 after one refresh that swapped the token
RefreshOnceOn401Witness ==
    /\ pc = "done" /\ phase = 2
    /\ drResp.status = 401
    /\ refreshCalls = 1
    /\ token = "a2" /\ reqAuth = "a2"

\* C3: a 4xx response other than 429 is never retried: it is the last attempt
\* of its doRequest, which returns that response.
ClientErrorNotRetried ==
    \A i \in 1..Len(log) :
        ClientErrorStatus(log[i]) =>
            /\ i = Len(log)
            /\ pc \in {"ret", "done"}
            /\ drErr = NoErr
            /\ drResp.status = log[i]
            /\ ~drResp.closed

\* a 404 on the first attempt: one request
ClientErrorNotRetriedWitness ==
    /\ pc = "ret"
    /\ log = <<404>>
    /\ drResp.status = 404

\* C4: k retryable outcomes (k <= 3) and then a non-retryable response: the
\* response is returned after exactly k retries; no retryable outcome ends the
\* call while retries remain.
RetriesThenResponse ==
    /\ (pc = "ret" /\ log # <<>> /\ ~RetryableStatus(Last(log))) =>
         /\ drErr = NoErr
         /\ drResp.status = Last(log)
         /\ attempt = Len(log) - 1
         /\ attempt <= 3
         /\ \A i \in 1..(Len(log) - 1) : RetryableStatus(log[i])
    /\ (pc = "ret" /\ log # <<>> /\ RetryableStatus(Last(log)) /\ ~ctxDone) =>
         Len(log) = 4

\* two 503 responses, then a success
RetriesThenResponseWitness ==
    /\ pc = "ret"
    /\ log = <<503, 503, 200>>
    /\ drResp.status = 200 /\ drErr = NoErr
    /\ attempt = 2

\* C5: one doRequest issues at most 4 HTTP attempts and always returns.
AtMostFourAttempts ==
    /\ [](Len(log) <= 4 /\ attempt <= 4)
    /\ (pc \in {"send", "wait"}) ~> (pc = "ret")

\* four attempts, all of them retryable failures
AtMostFourAttemptsWitness ==
    /\ pc = "ret"
    /\ Len(log) = 4
    /\ attempt = 4

\* C6: when the retries are exhausted the caller gets an error, and after a
\* persistent 429/5xx that error carries the status of the response.
ExhaustedErrorCarriesStatus ==
    (pc = "done" /\ Len(log) = 4 /\ \A i \in 1..4 : RetryableStatus(log[i])) =>
        /\ result # NoErr
        /\ Last(log) # 0 => result.status = Last(log)

\* C7: a context that ends before or during a backoff wait makes doRequest
\* return the context's error from the wait, and no request is issued once
\* the context has ended.
CancelAbortsBackoff ==
    [][ /\ (cmd = "api" /\ ctxDone) => Len(log') <= Len(log)
        /\ (pc = "wait" /\ ctxDone) =>
              (pc' = "ret" /\ drErr' = Err("ctx") /\ log' = log) ]_vars

\* cancelled during the first backoff, three retries still available
CancelAbortsBackoffWitness ==
    /\ pc = "ret"
    /\ drErr = Err("ctx")
    /\ Len(log) = 1 /\ attempt = 1
    /\ ctxDone

(***************************************************************************)
(* Properties of the commands: token refresh and login                     *)
(***************************************************************************)
\* C2: when a resource call of a command gets a 401 and the credential file
\* holds a refresh token, the request is retried only after the callback has
\* posted a refresh_token grant.
GrantBeforeRetryOn401 ==
    [][ ( /\ cmd = "api" /\ refresher = "wired"
          /\ pc = "ret" /\ phase = 1
          /\ drErr = NoErr /\ drResp.status = 401
          /\ store.kind = "creds" /\ store.refresh # ""
          /\ phase' = 2 )
        => grants' = grants + 1 ]_vars

CallbackPasses(h) == h.error = "" /\ h.state = expState /\ h.code # ""

FirstFailure(h) ==
    IF h.error # "" THEN "oauth"
    ELSE IF h.state # expState THEN "state"
    ELSE "code"

LoginFailures == {"oauth", "state", "code", "exchange", "timeout"}

RefreshFailures == {Err("refresh"), Err("refresh_config"), Err("relogin"), Err("load")}

ListenerClosedOnReturn ==
    (cmd = "login" /\ lpc = "returned" /\ expState # "") => ~lnOpen

\* C11: once one callback of a login attempt has been handled, the server
\* validates no further callback request and no further token exchange runs.
OneCallbackPerLogin ==
    [][ (cmd = "login" /\ \E i \in DOMAIN handlers : handlers[i].stage = "done")
        => /\ Len(handlers') <= Len(handlers)
           /\ \A j \in DOMAIN handlers :
                 j \in DOMAIN handlers' =>
                    (handlers'[j].exchanged => handlers[j].exchanged) ]_vars

\* C12 as stated: RefreshTokenIfNeeded posts a refresh_token grant exactly
\* when the stored token has at most 5 minutes left and a refresh token is
\* held; with at most 5 minutes left and no refresh token it fails with the
\* re-login error and posts nothing.
RefreshGrantIffDue ==
    [][ ( /\ cmd = "api" /\ refresher = "wired"
          /\ refreshCalls' = refreshCalls + 1
          /\ store.kind = "creds" )
        => LET due == store.createdAt + store.expiresIn - now <= 300 IN
           /\ (grants' = grants + 1) <=> (due /\ store.refresh # "")
           /\ (due /\ store.refresh = "") =>
                 /\ refreshErr' = Err("relogin")
                 /\ grants' = grants
                 /\ store' = store ]_vars

\* C12, amended: the grant is posted exactly when the stored token has at
\* most 5 minutes left, a refresh token is held and the OAuth2 client
\* configuration could be read; without the configuration the call fails and
\* posts nothing. The proactive call of NewAPIClient posts a grant only for
\* a token with at most 5 minutes left and a refresh token.
RefreshGrantIffDueAndConfigured ==
    [][ /\ ( /\ cmd = "api" /\ refresher = "wired"
              /\ refreshCalls' = refreshCalls + 1
              /\ store.kind = "creds" )
            => LET due == store.createdAt + store.expiresIn - now <= 300 IN
               /\ (grants' = grants + 1) <=>
                     (due /\ store.refresh # "" /\ refreshErr' # Err("refresh_config"))
               /\ refreshErr' = Err("refresh_config") =>
                     (due /\ store.refresh # "" /\ grants' = grants /\ store' = store)
               /\ (due /\ store.refresh = "") =>
                     /\ refreshErr' = Err("relogin")
                     /\ grants' = grants
                     /\ store' = store
        /\ (cmd = "none" /\ cmd' = "api" /\ grants' = 1)
            => /\ store.kind = "creds" /\ store.refresh # ""
               /\ store.createdAt + store.expiresIn - now' <= 300 ]_vars

\* the 401 callback posted a grant for a token that had exactly 5 minutes left
RefreshGrantIffDueAndConfiguredWitness ==
    /\ cmd = "api" /\ refresher = "wired"
    /\ refreshCalls = 1 /\ grants = 1 /\ refreshErr = NoErr
    /\ phase = 2 /\ now = 1
    /\ store.kind = "creds" /\ store.createdAt = 1

(***************************************************************************)
(* Properties of the pagination engine                                     *)
(***************************************************************************)
\* the page the listing links to from page p, 0 if it links to none
LinkedPage(p) ==
    IF \E i \in DOMAIN srvLink[p] : srvLink[p][i].rel = "next"
    THEN CHOOSE q \in 1..MaxPages :
           \E i \in DOMAIN srvLink[p] : srvLink[p][i] = [page |-> q, rel |-> "next"]
    ELSE 0

RECURSIVE ChainFrom(_, _)
\* the pages reached from p by following at most n links
ChainFrom(p, n) ==
    IF p = 0 \/ n = 0 THEN <<>> ELSE <<p>> \o ChainFrom(LinkedPage(p), n - 1)

ChainPages == ChainFrom(1, MaxPages + 1)

\* the chain of next links ends, after K = Len(ChainPages) pages
ChainEnds == Len(ChainPages) <= MaxPages

RECURSIVE ItemsOf(_)
ItemsOf(pages) ==
    IF pages = <<>> THEN <<>> ELSE PageItems(Head(pages)) \o ItemsOf(Tail(pages))

\* C13: on a listing whose chain of next links spans K pages, a drain that
\* returns without error has requested exactly those K pages, once each and
\* in order, and returns their items in server order, each exactly once.
DrainReturnsEveryPageOnce ==
    (dpc = "done" /\ drainErr = NoErr /\ ChainEnds) =>
        /\ requested = ChainPages
        /\ allItems = ItemsOf(ChainPages)
        /\ \A i, j \in DOMAIN allItems : i # j => allItems[i] # allItems[j]

\* a listing of at least two linked pages was drained
DrainReturnsEveryPageOnceWitness ==
    /\ dpc = "done" /\ drainErr = NoErr
    /\ ChainEnds /\ Len(ChainPages) >= 2
    /\ Len(requested) = Len(ChainPages)
    /\ Len(allItems) >= 2

\* C14: after a response without a next link, or with fewer items than the
\* requested page size, no further page is requested.
DrainStopsAtShortPage ==
    [][ ( /\ dpc = "loop" /\ requested # <<>>
          /\ \/ LinkedPage(Last(requested)) = 0
             \/ srvLen[Last(requested)] < PerPage )
        => requested' = requested ]_vars

\* C15: within one drain no page is requested twice.
NoPageRequestedTwice ==
    \A i, j \in DOMAIN requested : i # j => requested[i] # requested[j]

(***************************************************************************)
(* Properties of the inscription rules                                     *)
(***************************************************************************)
RECURSIVE Without(_, _)
\* the records of pus whose slug is not in slugs, in order
Without(pus, slugs) ==
    IF pus = <<>> THEN <<>>
    ELSE IF Head(pus).slug \in slugs THEN Without(Tail(pus), slugs)
    ELSE <<Head(pus)>> \o Without(Tail(pus), slugs)

\* C20: a forbidden project in status in_progress, waiting_for_correction,
\* creating_group or searching_a_group rejects the candidate; a candidate
\* whose records of forbidden projects are all finished with validated=false
\* is accepted; records of projects outside the forbidden set do not change
\* the result.
ForbiddenProjectCheck ==
    verdict # "none" =>
        /\ (\E i \in DOMAIN projectUsers :
               /\ projectUsers[i].slug \in forbiddenProjects
               /\ projectUsers[i].status \in
                     {"in_progress", "waiting_for_correction", "creating_group",
                      "searching_a_group"})
             => verdict = "reject"
        /\ (\A i \in DOMAIN projectUsers :
               projectUsers[i].slug \in forbiddenProjects =>
                  (projectUsers[i].status = "finished"
                     /\ projectUsers[i].validated = "false"))
             => verdict = "accept"
        /\ (verdict = "accept") <=>
              checkForbiddenProjects(
                  Without(projectUsers, ProjectSlugs \ forbiddenProjects),
                  forbiddenProjects)

\* a candidate searching a group for a forbidden project, next to a validated
\* project outside the forbidden set, was rejected
ForbiddenProjectCheckWitness ==
    /\ verdict = "reject"
    /\ forbiddenProjects = {"p1"}
    /\ \E i, j \in DOMAIN projectUsers :
         /\ projectUsers[i].slug = "p1"
         /\ projectUsers[i].status = "searching_a_group"
         /\ projectUsers[j].slug = "p2"
         /\ projectUsers[j].status = "finished"
         /\ projectUsers[j].validated = "true"

(***************************************************************************)
(* Properties of the candidate scan                                        *)
(***************************************************************************)
\* C16: when an API call of the scan has failed, the command returns an error.
ApiErrorsFailTheCommand ==
    (scpc = "done" /\ apiFailed) => scanErr # NoErr

\* C17: no accepted candidate has a blackhole date before the scan's
\* reference time or a cursus end date.
NoBlackholedOrEndedAccepted ==
    \A i \in DOMAIN eligible : ~eligible[i].bhPast /\ ~eligible[i].ended

\* a blackholed candidate was skipped after another candidate was accepted
NoBlackholedOrEndedAcceptedWitness ==
    /\ scpc = "page"
    /\ lastOutcome = "blackholed"
    /\ Len(eligible) >= 1
    /\ totalChecked > Len(eligible)

\* C18: a scan that ends without error has reached the limit or has fetched
\* the last page of candidates.
ScanStopsOnlyWhenExhausted ==
    (scpc = "done" /\ scanErr = NoErr) =>
        (Len(eligible) >= limit \/ currentPage >= srvPages)

\* C19: never more than limit candidates are accepted, and once limit
\* candidates are accepted no candidate is examined and no page is fetched.
ResultLimitRespected ==
    [][ scpc' # "idle" =>
          /\ Len(eligible') <= limit'
          /\ (scpc # "idle" /\ Len(eligible) >= limit) =>
                /\ totalChecked' = totalChecked
                /\ totalAPIPages' = totalAPIPages ]_vars

\* the scan ended at the limit with candidates and pages left
ResultLimitRespectedWitness ==
    /\ scpc = "done"
    /\ limit >= 1 /\ Len(eligible) = limit
    /\ pos < pageLen
    /\ currentPage < srvPages

\* C21: checkRequiredQuests accepts exactly when every required slug has a
\* quest record with a validation date; a candidate without quest records is
\* accepted only for an empty required list.
RequiredQuestCheck ==
    questVerdict # "none" =>
        /\ (questVerdict = "accept") <=>
              \A i \in DOMAIN requiredQuests :
                 \E j \in DOMAIN questUsers :
                    /\ questUsers[j].slug = requiredQuests[i]
                    /\ questUsers[j].validatedAt = "set"
        /\ (questUsers = <<>> /\ questVerdict = "accept") => requiredQuests = <<>>

\* a candidate holding the required quest only without a validation date
\* was rejected
RequiredQuestCheckWitness ==
    /\ questVerdict = "reject"
    /\ requiredQuests = <<"q1">>
    /\ \E j \in DOMAIN questUsers :
         questUsers[j].slug = "q1" /\ questUsers[j].validatedAt = "nil"
    /\ \E j \in DOMAIN questUsers :
         questUsers[j].slug = "q2" /\ questUsers[j].validatedAt = "set"

RECURSIVE ParamsFor(_, _)
\* the params of the inscription rules of rs named name, in order
ParamsFor(rs, name) ==
    IF rs = <<>> THEN <<>>
    ELSE (IF Head(rs).kind = "inscription" /\ Head(rs).internalName = name
          THEN Head(rs).params ELSE <<>>)
         \o ParamsFor(Tail(rs), name)

\* C22: each bucket holds the parameter values of the inscription rules
\* with its internal name, in order; rules of another kind or another
\* internal name contribute nothing.
RulesParsedIntoBuckets ==
    parsed =>
        /\ reqs.requiredQuests = ParamsFor(rules, "QuestsValidated")
        /\ reqs.forbiddenQuests = ParamsFor(rules, "QuestsNotValidated")
        /\ reqs.forbiddenProjects = ParamsFor(rules, "NeitherOngoingOrValidated")

\* a rule of another kind and a rule of another internal name were ignored
RulesParsedIntoBucketsWitness ==
    /\ parsed
    /\ Len(rules) = 2
    /\ rules[1].kind = "correction" /\ rules[1].internalName = "QuestsValidated"
    /\ rules[1].params # <<>>
    /\ rules[2].kind = "inscription" /\ rules[2].internalName = "QuestsNotValidated"
    /\ rules[2].params = <<"v1", "v2">>
    /\ reqs.requiredQuests = <<>>
    /\ reqs.forbiddenQuests = <<"v1", "v2">>

\* C23: under zero inscription rules, a candidate that the scan did not skip
\* as blackholed or as ended is accepted.
ZeroRulesAcceptEveryActive ==
    (scpc # "idle" /\ reqs = NoReqs /\ lastOutcome \notin {"none", "blackholed", "ended"})
        => lastOutcome = "accepted"

\* C24: every request the client of a CLI command has sent carried a
\* non-empty bearer token, on the first call and on the retry after a refresh.
NoEmptyBearerSent ==
    (cmd = "api" /\ refresher = "wired" /\ Len(log) > 0) => reqAuth # ""

\* C25: the form a login attempt posts to the token endpoint carries the
\* verifier whose challenge is in the attempt's authorize URL and the
\* redirect_uri of that URL.
ExchangeCarriesAttemptPKCE ==
    \A i \in DOMAIN handlers :
        handlers[i].exchanged =>
            /\ "code_verifier" \in DOMAIN handlers[i].form
            /\ "code_challenge" \in DOMAIN authURL
            /\ authURL.code_challenge = <<"S256", handlers[i].form.code_verifier>>
            /\ authURL.code_challenge_method = "S256"
            /\ handlers[i].form.redirect_uri = authURL.redirect_uri
            /\ authURL.state = expState

ExchangeCarriesAttemptPKCEWitness ==
    \E i \in DOMAIN handlers :
        /\ handlers[i].exchanged
        /\ handlers[i].form.code_verifier = "v2"
        /\ handlers[i].form.redirect_uri = "http://127.0.0.1/callback"
        /\ authURL.redirect_uri = "http://127.0.0.1/callback"
        /\ authURL.code_challenge = <<"S256", "v2">>

\* C26: every generated PKCE pair has a verifier of 43 to 128 characters and
\* a challenge that is the encoded SHA-256 digest of that verifier.
PKCEPairWellFormed ==
    \A k \in DOMAIN generated :
        /\ Len(generated[k].CodeVerifier) >= 43
        /\ Len(generated[k].CodeVerifier) <= 128
        /\ generated[k].CodeChallenge = <<"S256", generated[k].CodeVerifier>>

PKCEPairWellFormedWitness ==
    /\ gpc = "ok"
    /\ generated # <<>>
    /\ Len(generated[1].CodeVerifier) = 86
    /\ \E j \in DOMAIN generated[1].CodeVerifier : generated[1].CodeVerifier[j] = 63

\* C27: after a successful SaveCredentials the credential file has mode 0600,
\* whether it was created by the call or existed before.
SavedFileOwnerOnly ==
    saved = "ok" => fileMode = <<OwnerOnly>>

\* C28: handleResponse returns an error for every response whose status is
\* outside 200-299, and hands the body to the decoder only for a 2xx response.
HandleResponseErrorsOnNon2xx ==
    hrBy = "handleResponse" =>
        /\ (hrResp.status < 200 \/ hrResp.status > 299) => hrOut # NoErr
        /\ hrDecoded => (hrResp.status >= 200 /\ hrResp.status <= 299)

\* C29: a 2xx response whose body cannot be decoded yields a decode error,
\* which is neither an API error nor a transport error; a non-2xx response
\* whose body cannot be parsed yields the generic API error that carries the
\* raw status and the body text, never a decode error.
DecodeErrorsKeptApart ==
    (hrBy \in {"handleResponse", "get"} /\ ~hrResp.closed /\ hrResp.body # "json") =>
        IF hrResp.status >= 200 /\ hrResp.status <= 299
        THEN hrOut = Err("decode")
        ELSE hrOut = [kind |-> "apiraw", status |-> hrResp.status]

\* C30: the status of an API error is the HTTP status of the response, also
\* when the error body has a status field of its own.
ApiErrorStatusIsHttpStatus ==
    (hrBy \in {"handleResponse", "get"} /\ hrOut.kind \in {"api", "apiraw", "apistatus"})
        => hrOut.status = hrResp.status

\* C31: when the refresh callback fails, makeRequest returns a refresh error,
\* sends nothing more and keeps the client's token; the token of a running
\* client changes only to a token the callback returned without error.
FailedRefreshKeepsToken ==
    [][ /\ (cmd = "api" /\ refreshCalls' = refreshCalls + 1 /\ refreshErr' # NoErr) =>
            /\ token' = token
            /\ result' = Err("refresh_failed")
            /\ pc' = "done"
            /\ drCalls' = drCalls
            /\ log' = log
        /\ (cmd = "api" /\ cmd' = "api" /\ token' # token) =>
            /\ refreshCalls' = refreshCalls + 1
            /\ refreshErr' = NoErr
            /\ token' = newToken' ]_vars

\* a client holding a token got a 401 and its callback failed
FailedRefreshKeepsTokenWitness ==
    /\ cmd = "api" /\ pc = "done"
    /\ result = Err("refresh_failed")
    /\ refreshErr # NoErr
    /\ token = "a1"
    /\ drCalls = 1 /\ refreshCalls = 1

\* C32: a record of a forbidden project with validated = true rejects the
\* candidate, whatever the status of the record.
ValidatedForbiddenProjectRejects ==
    (verdict # "none"
       /\ \E i \in DOMAIN projectUsers :
             /\ projectUsers[i].slug \in forbiddenProjects
             /\ projectUsers[i].validated = "true")
        => verdict = "reject"

\* C33: checkForbiddenQuests rejects exactly when some record with a
\* validation timestamp has a slug of the forbidden list.
ForbiddenQuestCheck ==
    fqVerdict \in {"accept", "reject"} =>
        ((fqVerdict = "reject") <=>
            \E i \in DOMAIN questUsers, j \in DOMAIN forbiddenQuests :
                /\ questUsers[i].validatedAt = "set"
                /\ questUsers[i].slug = forbiddenQuests[j])

\* a candidate with an unvalidated record of a forbidden quest and a validated
\* quest outside the list was accepted
ForbiddenQuestCheckWitness ==
    /\ fqVerdict = "accept"
    /\ forbiddenQuests = <<"q1">>
    /\ \E i \in DOMAIN questUsers :
          questUsers[i].slug = "q1" /\ questUsers[i].validatedAt = "nil"
    /\ \E i \in DOMAIN questUsers :
          questUsers[i].slug = "q2" /\ questUsers[i].validatedAt = "set"

\* C34: the accepted candidates are in the order the server returned them,
\* page by page and within a page by position, none of them twice; the list
\* only grows at its end while the scan runs.
EligibleInServerOrder ==
    [][ /\ \A i, j \in DOMAIN eligible' :
              i < j =>
                 \/ eligible'[i].page < eligible'[j].page
                 \/ /\ eligible'[i].page = eligible'[j].page
                    /\ eligible'[i].pos < eligible'[j].pos
        /\ (scpc # "done" /\ scpc # "idle") =>
              /\ Len(eligible') >= Len(eligible)
              /\ \A i \in DOMAIN eligible : eligible'[i] = eligible[i] ]_vars

\* two candidates of different pages were accepted, others skipped between them
EligibleInServerOrderWitness ==
    /\ Len(eligible) = 2
    /\ eligible[1].page = 1 /\ eligible[1].pos = 1
    /\ eligible[2].page = 2 /\ eligible[2].pos = 2
    /\ totalChecked = 4

\* C35: a filter requested on a user listing (active/inactive, alumni/non-alumni,
\* staff) is never dropped: whichever endpoint the listing call goes to, the
\* filter is sent to it or is among the criteria applied to the returned users.
FiltersNeverDropped ==
    (lcmd = "list" /\ outcome.err = "")
        => \A fl \in OptsFilters(flags) :
               \/ fl \in outcome.requests[Len(outcome.requests)].filters
               \/ fl[1] \in outcome.criteria

\* C36: a campus name that matches no campus of the list returned, by name or
\* by city and case aside, makes the command fail with the campus-not-found
\* error, which lists at most MaxListed campuses, after the campus request only,
\* whatever the other flags are.
UnknownCampusFailsLookup ==
    (/\ lcmd # "idle" /\ outcome # NoOutcome
     /\ flags.campus # EmptyName
     /\ outcome.err # "list_campuses"
     /\ CampusHits(campuses, flags.campus) = {})
        => /\ outcome.err = "campus_not_found"
           /\ outcome.listed <= MaxListed
           /\ \A i \in DOMAIN outcome.requests :
                  outcome.requests[i].endpoint = "campuses"

\* C37: the text of an API error built from a JSON error body carries the
\* status code of the error and the body's message, or the body's error
\* description when the message is empty.
ApiErrorTextFromBody ==
    (hrBy \in {"handleResponse", "get"} /\ hrOut.kind = "api")
        => hrMsg = <<[status |-> hrOut.status,
                      text |-> IF hrResp.message # "" THEN hrResp.message
                               ELSE hrResp.description]>>

\* C38: matchesBlackholeStatus with status "past" returns true only for a
\* cursus record whose blackhole date is before now and whose end date is set;
\* a record with a past blackhole date and no end date gets false.
PastNeedsEndDate ==
    (bhBy = "done" /\ bhStatus = "past" /\ bhOut)
        => /\ ~bhUser.nil
           /\ bhUser.blackholedAt # <<>>
           /\ bhUser.blackholedAt[1] < bhNow
           /\ bhUser.endAt # <<>>

\* C39: no send on the token channel or the error channel stays blocked: a
\* callback handler that finds its channel full at its send does send and
\* return, and so does the serve goroutine, however many callbacks arrive and
\* whether or not runLogin is past its select.
HandlerBlocked(i) ==
    /\ cmd = "login"
    /\ i \in DOMAIN handlers
    /\ \/ handlers[i].stage = "sendErr" /\ Len(errorChan) = 1
       \/ handlers[i].stage = "sendTok" /\ Len(tokenChan) = 1

HandlerReturned(i) == i \in DOMAIN handlers /\ handlers[i].stage = "done"

SendsNeverBlockForever ==
    /\ \A i \in 1..MaxCallbacks : HandlerBlocked(i) ~> HandlerReturned(i)
    /\ (cmd = "login" /\ spc = "sendErr" /\ Len(errorChan) = 1) ~> (spc = "done")

====
